---- MODULE Spec2Model ----
(***************************************************************************)
(* zet-cli: the signature compiler (parseSignature) and the argv matcher   *)
(* (parseArgv) of lib/index.mjs.                                           *)
(*                                                                         *)
(* A JavaScript string is modelled as a sequence of one-character strings, *)
(* so that slicing, trimming, lowercasing and the regular expressions are  *)
(* computed character by character, as the code computes them.             *)
(***************************************************************************)
EXTENDS Integers, Sequences, FiniteSets, TLC

(***************************************************************************)
(* Characters and string primitives of the JavaScript runtime              *)
(***************************************************************************)
UpperChars == <<"A","B","C","D","E","F","G","H","I","J","K","L","M",
                "N","O","P","Q","R","S","T","U","V","W","X","Y","Z">>
LowerChars == <<"a","b","c","d","e","f","g","h","i","j","k","l","m",
                "n","o","p","q","r","s","t","u","v","w","x","y","z">>
DigitChars == {"0","1","2","3","4","5","6","7","8","9"}
Whitespace == {" ", "\t", "\n"}

\* const v = x; ... : JavaScript evaluates x once and binds the value, which
\* is written  TheOne({ ...v... : v \in {x} })
TheOne(S) == CHOOSE r \in S : TRUE

\* seg[i] >= "A" && seg[i] <= "Z"
UpperSet == {UpperChars[k] : k \in 1..26}
LowerSet == {LowerChars[k] : k \in 1..26}
IsUpper(c) == c \in UpperSet
IsLower(c) == c \in LowerSet
\* [a-zA-Z]
IsLetter(c) == IsUpper(c) \/ IsLower(c)

\* String.prototype.toLowerCase, one character
LowerChar(c) ==
  IF IsUpper(c) THEN LowerChars[CHOOSE k \in 1..26 : UpperChars[k] = c] ELSE c
\* String.prototype.toLowerCase
ToLowerCase(s) == [k \in 1..Len(s) |-> LowerChar(s[k])]

\* String.prototype.startsWith / endsWith
StartsWith(s, p) == Len(s) >= Len(p) /\ SubSeq(s, 1, Len(p)) = p
EndsWith(s, p) == Len(s) >= Len(p) /\ SubSeq(s, Len(s) - Len(p) + 1, Len(s)) = p

\* String.prototype.indexOf(c), 1-based; 0 when c does not occur (-1 in JS)
IndexOf(s, c) ==
  IF \E k \in 1..Len(s) : s[k] = c
  THEN CHOOSE k \in 1..Len(s) : s[k] = c /\ \A j \in 1..(k-1) : s[j] # c
  ELSE 0

\* String.prototype.trim
Trim(s) ==
  IF \A k \in 1..Len(s) : s[k] \in Whitespace THEN <<>>
  ELSE LET a == CHOOSE k \in 1..Len(s) :
                  s[k] \notin Whitespace /\ \A j \in 1..(k-1) : s[j] \in Whitespace
           b == CHOOSE k \in 1..Len(s) :
                  s[k] \notin Whitespace /\ \A j \in (k+1)..Len(s) : s[j] \in Whitespace
       IN SubSeq(s, a, b)

\* a regex character class: [set] or, negated, [^set]
Class(set) == [negated |-> FALSE, set |-> set]
NotClass(set) == [negated |-> TRUE, set |-> set]
InClass(c, cls) == (c \in cls.set) # cls.negated

\* the end of the maximal run of characters of the class that starts at p
\* (p - 1 when s[p] is not of the class): a greedy  [..]*  of a regex
RunEnd(s, p, cls) ==
  IF p > Len(s) \/ ~InClass(s[p], cls) THEN p - 1
  ELSE CHOOSE e \in p..Len(s) :
         /\ \A k \in p..e : InClass(s[k], cls)
         /\ (e = Len(s) \/ ~InClass(s[e+1], cls))

\* null
NULL == <<>>

(***************************************************************************)
(* Signature parsing                                                       *)
(***************************************************************************)

\* one match of TOKEN_RE at position p: the index of its last character, or
\* 0 when no alternative matches at p.  Alternatives are tried in order:
\*   \{[^}]+\}   |   \.\.\.   |   [^\s{}]+
BareChars == NotClass(Whitespace \cup {"{", "}"})
NotClose == NotClass({"}"})
TOKEN_RE(s, p) ==
  LET q == RunEnd(s, p + 1, NotClose) + 1
  IN IF s[p] = "{" /\ q >= p + 2 /\ q <= Len(s) THEN q
     ELSE IF p + 2 <= Len(s) /\ SubSeq(s, p, p + 2) = <<".", ".", ".">> THEN p + 2
     ELSE IF InClass(s[p], BareChars) THEN RunEnd(s, p, BareChars)
     ELSE 0

\* signature.match(TOKEN_RE) with the g flag: all matches, left to right; a
\* character at which nothing matches is skipped
MatchAll(s) ==
  LET from[p \in 1..(Len(s) + 1)] ==
        IF p > Len(s) THEN <<>>
        ELSE LET e == TOKEN_RE(s, p)
             IN IF e = 0 THEN from[p + 1]
                ELSE <<SubSeq(s, p, e)>> \o from[e + 1]
  IN from[1]

\* a thrown Error
Throw(msg, what) == [ok |-> FALSE, error |-> msg, what |-> what]

\* validateOptionName: TRUE when it returns, FALSE when it throws.  Segments
\* are the maximal hyphen-free stretches of the name; within a segment every
\* character after the first must not be uppercase.
NotHyphen == NotClass({"-"})
\* name.split("-")
SplitHyphen(name) ==
  LET from[p \in 1..(Len(name) + 2)] ==
        IF p > Len(name) + 1 THEN <<>>
        ELSE LET h == RunEnd(name, p, NotHyphen) + 1
             IN <<SubSeq(name, p, h - 1)>> \o from[h + 1]
  IN from[1]

\* validateOptionName looking at the first segment only
validateOptionNameFirstSegment(raw) ==
  LET name == IF StartsWith(raw, <<"-", "-">>) THEN SubSeq(raw, 3, Len(raw)) ELSE raw
  IN \A seg \in {SplitHyphen(name)[1]} :
       \A i \in 2..Len(seg) : ~IsUpper(seg[i])

validateOptionName(raw) ==
  LET name == IF StartsWith(raw, <<"-", "-">>) THEN SubSeq(raw, 3, Len(raw)) ELSE raw
  IN \A seg \in {SplitHyphen(name)[k] : k \in 1..Len(SplitHyphen(name))} :
       \A i \in 2..Len(seg) : ~IsUpper(seg[i])

\* extractShortFlag
ShortOf(segments) ==
  LET from[k \in 1..(Len(segments) + 1)] ==
        IF k > Len(segments) THEN <<>>
        ELSE (IF Len(segments[k]) > 0 /\ IsUpper(segments[k][1])
              THEN <<segments[k][1]>> ELSE <<>>) \o from[k + 1]
  IN from[1]

\* extractShortFlag taking the letter of the first segment only
extractShortFlagFirstSegment(name) ==
  LET Flag(short) == IF Len(short) > 0 THEN <<"-">> \o SubSeq(short, 1, 1) ELSE NULL
  IN TheOne({Flag(ShortOf(segments)) : segments \in {SplitHyphen(name)}})

extractShortFlag(name) ==
  LET Flag(short) == IF Len(short) > 0 THEN <<"-">> \o short ELSE NULL
  IN TheOne({Flag(ShortOf(segments)) : segments \in {SplitHyphen(name)}})

\* the option branch of parseSignature for one braced token:
\*   /^--([a-zA-Z][\w-]*)([=])?\s*([\s\S]*)?$/
WordChars == Class(UpperSet \cup LowerSet \cup DigitChars \cup {"_"})
OptNameChars == Class(WordChars.set \cup {"-"})
ParseOption(inner) ==
  IF ~(Len(inner) >= 3 /\ IsLetter(inner[3]))
  THEN Throw("Invalid option syntax", inner)
  ELSE LET Matched(e) ==
             LET hasEquals == e + 1 <= Len(inner) /\ inner[e + 1] = "="
                 after == IF hasEquals THEN e + 2 ELSE e + 1
                 desc == Trim(SubSeq(inner, after, Len(inner)))
                 Named(rawName) ==
                   IF ~validateOptionName(rawName)
                   THEN Throw("uppercase letters are only allowed at the start of hyphen-separated segments", rawName)
                   ELSE [ok |-> TRUE,
                         opt |-> [long |-> <<"-", "-">> \o ToLowerCase(rawName),
                                  short |-> extractShortFlag(rawName),
                                  acceptsValue |-> hasEquals,
                                  description |-> desc]]
             IN TheOne({Named(v) : v \in {SubSeq(inner, 3, e)}})
       IN TheOne({Matched(v) : v \in {RunEnd(inner, 4, OptNameChars)}})

\* ParseArgument without the test of seenOptional
ParseArgumentAnyOrder(inner, seenOptional) ==
  IF ~(Len(inner) >= 1 /\ IsLetter(inner[1]))
  THEN Throw("Invalid argument syntax", inner)
  ELSE LET Matched(e) ==
             LET argName == SubSeq(inner, 1, e)
                 optional == e + 1 <= Len(inner) /\ inner[e + 1] = "?"
                 after == IF optional THEN e + 2 ELSE e + 1
                 desc == Trim(SubSeq(inner, after, Len(inner)))
             IN [ok |-> TRUE,
                 optional |-> optional,
                 arg |-> [name |-> argName, required |-> ~optional,
                          description |-> desc]]
       IN TheOne({Matched(v) : v \in {RunEnd(inner, 2, WordChars)}})

\* the argument branch of parseSignature for one braced token:
\*   /^([a-zA-Z]\w*)(\?)?\s*([\s\S]*)?$/
ParseArgument(inner, seenOptional) ==
  IF ~(Len(inner) >= 1 /\ IsLetter(inner[1]))
  THEN Throw("Invalid argument syntax", inner)
  ELSE LET Matched(e) ==
             LET argName == SubSeq(inner, 1, e)
                 optional == e + 1 <= Len(inner) /\ inner[e + 1] = "?"
                 after == IF optional THEN e + 2 ELSE e + 1
                 desc == Trim(SubSeq(inner, after, Len(inner)))
             IN IF ~optional /\ seenOptional
                THEN Throw("Required argument cannot follow an optional argument", argName)
                ELSE [ok |-> TRUE,
                      optional |-> optional,
                      arg |-> [name |-> argName, required |-> ~optional,
                               description |-> desc]]
       IN TheOne({Matched(v) : v \in {RunEnd(inner, 2, WordChars)}})

\* the token loop of parseSignature, from token i on
RECURSIVE ParseTokens(_, _, _, _, _, _)
ParseTokens(tokens, i, args, options, acceptsRest, seenOptional) ==
  IF i > Len(tokens)
  THEN [ok |-> TRUE, args |-> args, options |-> options, acceptsRest |-> acceptsRest]
  ELSE LET tok == tokens[i]
       IN IF tok = <<".", ".", ".">>
          THEN ParseTokens(tokens, i + 1, args, options, TRUE, seenOptional)
          ELSE IF StartsWith(tok, <<"{">>) /\ EndsWith(tok, <<"}">>)
          THEN LET Option(o) ==
                     IF ~o.ok THEN o
                     ELSE ParseTokens(tokens, i + 1, args, Append(options, o.opt),
                                      acceptsRest, seenOptional)
                   Argument(a) ==
                     IF ~a.ok THEN a
                     ELSE ParseTokens(tokens, i + 1, Append(args, a.arg), options,
                                      acceptsRest, seenOptional \/ a.optional)
                   Braced(inner) ==
                     IF StartsWith(inner, <<"-", "-">>)
                     THEN TheOne({Option(v) : v \in {ParseOption(inner)}})
                     ELSE TheOne({Argument(v) : v \in {ParseArgument(inner, seenOptional)}})
               IN TheOne({Braced(v) : v \in {Trim(SubSeq(tok, 2, Len(tok) - 1))}})
          ELSE Throw("Unexpected token in signature", tok)

\* the duplicate check comparing a name with the one before it only
RECURSIVE FirstDuplicateAdjacent(_, _, _)
FirstDuplicateAdjacent(names, k, allNames) ==
  IF k > Len(names) THEN 0
  ELSE IF k > 1 /\ names[k] = names[k - 1] THEN k
  ELSE FirstDuplicateAdjacent(names, k + 1, allNames)

\* the duplicate check of parseSignature: one Set shared by argument names
\* and option long names, filled in declaration order
RECURSIVE FirstDuplicate(_, _, _)
FirstDuplicate(names, k, allNames) ==
  IF k > Len(names) THEN 0
  ELSE IF names[k] \in allNames THEN k
  ELSE FirstDuplicate(names, k + 1, allNames \cup {names[k]})

parseSignature(signature) ==
  LET Matched(tokens) ==
        IF Len(tokens) = 0 THEN Throw("Empty signature", <<>>)
        ELSE LET Collected(body) ==
                   IF ~body.ok THEN body
                   ELSE LET argNames == [k \in 1..Len(body.args) |-> body.args[k].name]
                            optNames == [k \in 1..Len(body.options) |-> body.options[k].long]
                            Checked(d) ==
                              IF d # 0 /\ d <= Len(argNames)
                              THEN Throw("Duplicate argument name", argNames[d])
                              ELSE IF d # 0
                              THEN Throw("Duplicate option name", optNames[d - Len(argNames)])
                              ELSE [ok |-> TRUE, name |-> tokens[1], args |-> body.args,
                                    options |-> body.options,
                                    acceptsRest |-> body.acceptsRest]
                        IN TheOne({Checked(v) : v \in {FirstDuplicate(argNames \o optNames, 1, {})}})
             IN TheOne({Collected(v) : v \in {ParseTokens(tokens, 2, <<>>, <<>>, FALSE, FALSE)}})
  IN TheOne({Matched(v) : v \in {MatchAll(signature)}})

(***************************************************************************)
(* Command                                                                 *)
(***************************************************************************)

\* new Command(parsed.name, group, parsed): the compiled signature is the
\* object parseSignature returned
Command(name, group, parsed) ==
  [name |-> name, group |-> group,
   signature |-> [name |-> parsed.name, args |-> parsed.args,
                  options |-> parsed.options, acceptsRest |-> parsed.acceptsRest],
   description |-> <<>>,
   type |-> "null",
   parts |-> <<>>,
   callback |-> "null"]

(***************************************************************************)
(* Map, CommandBuilder, Group, zet.group                                   *)
(***************************************************************************)

\* a Map: its entries in insertion order, no key twice
MapHas(m, key) == \E j \in 1..Len(m) : m[j].key = key
Undefined == [undefined |-> TRUE]
MapGet(m, key) ==
  IF MapHas(m, key) THEN m[CHOOSE j \in 1..Len(m) : m[j].key = key].value
  ELSE Undefined
MapSet(m, key, value) ==
  IF MapHas(m, key)
  THEN [j \in 1..Len(m) |-> IF m[j].key = key THEN [key |-> key, value |-> value]
                                               ELSE m[j]]
  ELSE Append(m, [key |-> key, value |-> value])
MapKeys(m) == [j \in 1..Len(m) |-> m[j].key]

\* the methods of CommandBuilder, as what they do to the command
CommandBuilder_description(c, text) == [c EXCEPT !.description = text]
CommandBuilder_command(c, parts) == [c EXCEPT !.type = "command", !.parts = parts]

\* callback(fn) storing the function without setting the type
CommandBuilder_callbackKeepingType(c, fn) == [c EXCEPT !.callback = fn]

CommandBuilder_callback(c, fn) == [c EXCEPT !.type = "callback", !.callback = fn]

\* new Group(prefix, description)
Group(prefix, description) ==
  [prefix |-> prefix, description |-> description, commands |-> <<>>]

\* what a call leaves behind: the error it threw, or none
NoError == [msg |-> "none", what |-> <<>>]
Thrown(msg, what) == [msg |-> msg, what |-> what]

\* Group.register putting the command under its name without asking whether
\* the name is taken
Group_registerOverwrite(this, signature) ==
  LET Registered(parsed) ==
        IF ~parsed.ok
        THEN [thrown |-> Thrown(parsed.error, parsed.what), group |-> this]
        ELSE [thrown |-> NoError,
              group |-> [this EXCEPT !.commands =
                           MapSet(@, parsed.name,
                                  Command(parsed.name, this.prefix, parsed))]]
  IN TheOne({Registered(v) : v \in {parseSignature(signature)}})

\* Group.register: the group after the call and what the call threw.  The
\* command refers to its group, here by the group's prefix.
Group_register(this, signature) ==
  LET Registered(parsed) ==
        IF ~parsed.ok
        THEN [thrown |-> Thrown(parsed.error, parsed.what), group |-> this]
        ELSE IF MapHas(this.commands, parsed.name)
        THEN [thrown |-> Thrown("Duplicate command", parsed.name), group |-> this]
        ELSE [thrown |-> NoError,
              group |-> [this EXCEPT !.commands =
                           MapSet(@, parsed.name,
                                  Command(parsed.name, this.prefix, parsed))]]
  IN TheOne({Registered(v) : v \in {parseSignature(signature)}})

Reserved == <<"c", "l", "i">>

\* zet.group without the test for the reserved prefix
zet_groupNothingReserved(gs, prefix, description) ==
  IF MapHas(gs, prefix)
  THEN [thrown |-> Thrown("Group already exists", prefix), groups |-> gs]
  ELSE [thrown |-> NoError,
        groups |-> MapSet(gs, prefix, Group(prefix, description))]

\* zet.group: the groups map after the call and what the call threw
zet_group(gs, prefix, description) ==
  IF prefix = Reserved
  THEN [thrown |-> Thrown("The group prefix 'cli' is reserved", prefix), groups |-> gs]
  ELSE IF MapHas(gs, prefix)
  THEN [thrown |-> Thrown("Group already exists", prefix), groups |-> gs]
  ELSE [thrown |-> NoError,
        groups |-> MapSet(gs, prefix, Group(prefix, description))]

(***************************************************************************)
(* Help formatting                                                         *)
(***************************************************************************)

\* " ".repeat(n)
Repeat(n) == [k \in 1 .. n |-> " "]

\* Math.max(...lengths), 0 for none
MaxWidth(labels) ==
  IF labels = <<>> THEN 0
  ELSE CHOOSE w \in {Len(labels[k]) : k \in DOMAIN labels} :
         \A k \in DOMAIN labels : Len(labels[k]) <= w

\* pieces.join(sep)
RECURSIVE Join(_, _)
Join(pieces, sep) ==
  IF pieces = <<>> THEN <<>>
  ELSE IF Len(pieces) = 1 THEN pieces[1]
  ELSE pieces[1] \o sep \o Join(Tail(pieces), sep)

\* the piece of a usage line for one argument: <name> or [name]
ArgUsage(a) ==
  IF a.required THEN <<"<">> \o a.name \o <<">">> ELSE <<"[">> \o a.name \o <<"]">>

\* the usage echoed after a match error
formatUsageLine(c) ==
  LET sig == c.signature
      prefix == IF c.group # NULL THEN c.group \o <<" ">> ELSE <<>>
      named == <<"U","s","a","g","e",":"," ","z","e","t"," ">> \o prefix \o c.name
      RECURSIVE WithArgs(_, _)
      WithArgs(usage, k) ==
        IF k > Len(sig.args) THEN usage
        ELSE WithArgs(usage \o <<" ">> \o ArgUsage(sig.args[k]), k + 1)
      argued == WithArgs(named, 1)
      rested == IF sig.acceptsRest THEN argued \o <<" ","[","a","r","g","s",".",".",".","]">> ELSE argued
  IN IF Len(sig.options) > 0
     THEN rested \o <<" ","[","o","p","t","i","o","n","s","]">>
     ELSE rested

\* the first line of formatCommandHelp
HelpUsage(c) ==
  LET sig == c.signature
      named == <<"U","s","a","g","e",":"," ","z","e","t"," ">>
               \o (IF c.group # NULL THEN c.group \o <<" ">> ELSE <<>>)
               \o c.name
      argued == IF Len(sig.args) > 0
                THEN named \o <<" ">>
                     \o Join([k \in DOMAIN sig.args |-> ArgUsage(sig.args[k])], <<" ">>)
                ELSE named
      rested == IF sig.acceptsRest THEN argued \o <<" ","[","a","r","g","s",".",".",".","]">> ELSE argued
  IN IF Len(sig.options) > 0 THEN rested \o <<" ","[","o","p","t","i","o","n","s","]">> ELSE rested

\* the "Arguments:" block of formatCommandHelp
ArgumentLines(sig) ==
  IF Len(sig.args) = 0 THEN <<>>
  ELSE LET maxWidth == MaxWidth([k \in DOMAIN sig.args |-> sig.args[k].name])
           Line(a) ==
             <<" "," ">> \o a.name \o Repeat(maxWidth - Len(a.name) + 4)
             \o a.description
             \o (IF a.required THEN <<" ","(","r","e","q","u","i","r","e","d",")">> ELSE <<>>)
       IN <<NULL, <<"A","r","g","u","m","e","n","t","s",":">>>>
          \o [k \in DOMAIN sig.args |-> Line(sig.args[k])]

\* the label of one option in the "Options:" block
OptionLabel(o) ==
  o.long
  \o (IF o.acceptsValue THEN <<" ","<","v","a","l","u","e",">">> ELSE <<>>)
  \o (IF o.short # NULL THEN <<","," ">> \o o.short ELSE <<>>)

HelpEntry == [label |-> <<"-","-","h","e","l","p",","," ","-","h">>, description |-> <<"S","h","o","w"," ","h","e","l","p">>]

\* OptionEntries with the synthesized entry put first
OptionEntriesHelpFirst(sig) ==
  <<HelpEntry>>
  \o [k \in DOMAIN sig.options |->
        [label |-> OptionLabel(sig.options[k]),
         description |-> sig.options[k].description]]

\* the entries of the "Options:" block: the declared options, then --help
OptionEntries(sig) ==
  [k \in DOMAIN sig.options |->
     [label |-> OptionLabel(sig.options[k]),
      description |-> sig.options[k].description]]
  \o <<HelpEntry>>

\* the "Options:" block of formatCommandHelp
OptionLines(sig) ==
  LET entries == OptionEntries(sig)
      maxOptWidth == MaxWidth([k \in DOMAIN entries |-> entries[k].label])
      Line(e) ==
        <<" "," ">> \o e.label \o Repeat(maxOptWidth - Len(e.label) + 4) \o e.description
  IN <<NULL, <<"O","p","t","i","o","n","s",":">>>> \o [k \in DOMAIN entries |-> Line(entries[k])]

\* formatCommandHelp(cmd): the lines joined by "\n"
formatCommandHelp(c) ==
  LET sig == c.signature
      described == IF c.description # NULL
                   THEN <<NULL, <<" "," ">> \o c.description>>
                   ELSE <<>>
  IN Join(<<HelpUsage(c)>> \o described \o ArgumentLines(sig) \o OptionLines(sig),
          <<"\n">>)

(***************************************************************************)
(* Part expansion                                                          *)
(***************************************************************************)

\* the parts of .command(...): strings and numbers, the REST_PLACEHOLDER
\* sentinel, TemplateResult objects, arrays
Lit(s) == [tag |-> "string", value |-> s]
Num(n) == [tag |-> "number", number |-> n]
REST_PLACEHOLDER == [tag |-> "rest"]
TemplateResult(parts) == [tag |-> "template", parts |-> parts]
Array(items) == [tag |-> "array", items |-> items]

\* String(part) for a string and for a non-negative integer
Digit(d) == <<"0", "1", "2", "3", "4", "5", "6", "7", "8", "9">>[d + 1]
RECURSIVE Decimal(_)
Decimal(n) == IF n < 10 THEN <<Digit(n)>> ELSE Decimal(n \div 10) \o <<Digit(n % 10)>>
String(part) == IF part.tag = "number" THEN Decimal(part.number) ELSE part.value

\* flattenParts with the elements of a nested array pushed in reverse
RECURSIVE flattenPartsArrayReversed(_, _)
flattenPartsArrayReversed(parts, restArgs) ==
  LET Reverse(q) == [k \in 1..Len(q) |-> q[Len(q) + 1 - k]]
      Pushed(part) ==
        IF part.tag = "template" THEN flattenPartsArrayReversed(part.parts, restArgs)
        ELSE IF part.tag = "rest" THEN restArgs
        ELSE IF part.tag = "array"
        THEN Reverse(flattenPartsArrayReversed(part.items, restArgs))
        ELSE <<String(part)>>
      from[k \in 1..(Len(parts) + 1)] ==
        IF k > Len(parts) THEN <<>> ELSE Pushed(parts[k]) \o from[k + 1]
  IN from[1]

\* flattenParts; restArgs is the module variable it reads
RECURSIVE flattenParts(_, _)
flattenParts(parts, restArgs) ==
  LET Pushed(part) ==
        IF part.tag = "template" THEN flattenParts(part.parts, restArgs)
        ELSE IF part.tag = "rest" THEN restArgs
        ELSE IF part.tag = "array" THEN flattenParts(part.items, restArgs)
        ELSE <<String(part)>>
      from[k \in 1..(Len(parts) + 1)] ==
        IF k > Len(parts) THEN <<>> ELSE Pushed(parts[k]) \o from[k + 1]
  IN from[1]

\* nodeSpawn(cmd, args, options) with [cmd, ...args] = flat: node throws a
\* TypeError when the file is undefined or the empty string, and returns a
\* running child otherwise
SpawnThrows(flat) == flat = <<>> \/ flat[1] = <<>>
Child(flat) ==
  [file |-> flat[1], args |-> SubSeq(flat, 2, Len(flat)), closed |-> FALSE,
   code |-> <<>>]

(***************************************************************************)
(* Argv parsing                                                            *)
(***************************************************************************)

\* {} : an object without own properties
EmptyObject == [k \in {} |-> <<>>]

\* property names every plain object inherits from Object.prototype, among
\* those an argument name ( [a-zA-Z]\w* ) can spell
ObjectPrototype ==
  { <<"c","o","n","s","t","r","u","c","t","o","r">>,
    <<"t","o","S","t","r","i","n","g">>,
    <<"v","a","l","u","e","O","f">> }

\* name in obj : own properties and inherited ones
In(name, obj) == name \in DOMAIN obj \/ name \in ObjectPrototype

\* obj[name] = value
SetProperty(obj, name, value) == (name :> value) @@ obj

\* option values: the boolean true of a flag, or the string of a value option
BoolTrue == [type |-> "boolean", str |-> <<>>]
Str(v) == [type |-> "string", str |-> v]

\* longMap / shortMap: Map.set in declaration order, a later set of the same
\* key replacing the earlier one
RECURSIVE LongMap(_, _)
LongMap(options, n) ==
  IF n = 0 THEN EmptyObject
  ELSE (options[n].long :> options[n]) @@ LongMap(options, n - 1)

RECURSIVE ShortMap(_, _)
ShortMap(options, n) ==
  IF n = 0 THEN EmptyObject
  ELSE IF options[n].short # NULL
       THEN (options[n].short :> options[n]) @@ ShortMap(options, n - 1)
       ELSE ShortMap(options, n - 1)

\* the values parseArgv returns
HelpResult == [help |-> TRUE]
ErrorResult(msg, what, c) == [error |-> [msg |-> msg, what |-> what], cmd |-> c]
SuccessResult(a, o, r) == [args |-> a, options |-> o, rest |-> r]
\* parseArgv has not returned yet
Running == [running |-> TRUE]

\* the locals of parseArgv before the first token; i is the 1-based index of
\* the token the loop reads next, positionalIndex is 0-based as in the code
ScanInit ==
  [i |-> 1, args |-> EmptyObject, opts |-> EmptyObject, rest |-> <<>>,
   positionalIndex |-> 0, stopParsing |-> FALSE, result |-> Running]

Dashes == <<"-", "-">>
HelpLong == <<"-", "-", "h", "e", "l", "p">>
HelpShort == <<"-", "h">>

\* the conditions of the if cascade in the loop body
IsStopToken(token, s) == ~s.stopParsing /\ token = Dashes

\* IsHelpToken without the test of the stop flag
IsHelpTokenAnywhere(token, s) == token = HelpLong \/ token = HelpShort

\* IsHelpToken recognising '--help' only
IsHelpTokenLongOnly(token, s) == ~s.stopParsing /\ token = HelpLong

IsHelpToken(token, s) == ~s.stopParsing /\ (token = HelpLong \/ token = HelpShort)
IsLongToken(token, s) == ~s.stopParsing /\ StartsWith(token, Dashes)
IsShortToken(token, s) ==
  ~s.stopParsing /\ StartsWith(token, <<"-">>) /\ Len(token) > 1
                 /\ ~StartsWith(token, Dashes)

\* if (!stopParsing && token === "--")
StopBranch(s) == [s EXCEPT !.stopParsing = TRUE, !.i = s.i + 1]

\* HelpBranch going on to the next token instead of returning
HelpBranchSkipping(s) == [s EXCEPT !.i = s.i + 1]

\* if (!stopParsing && (token === "--help" || token === "-h"))
HelpBranch(s) == [s EXCEPT !.result = HelpResult]

\* LongBranch with the token split on its last '=' instead of its first
LastIndexOf(s, c) ==
  IF \E k \in 1..Len(s) : s[k] = c
  THEN CHOOSE k \in 1..Len(s) : s[k] = c /\ \A j \in (k+1)..Len(s) : s[j] # c
  ELSE 0

LongBranchLastEquals(argv, c, s) ==
  LET sig == c.signature
      token == argv[s.i]
      eqIdx == LastIndexOf(token, "=")
      name == IF eqIdx # 0 THEN SubSeq(token, 1, eqIdx - 1) ELSE token
      hasValue == eqIdx # 0
      value == IF eqIdx # 0 THEN SubSeq(token, eqIdx + 1, Len(token)) ELSE <<>>
      normalizedName == Dashes \o ToLowerCase(SubSeq(name, 3, Len(name)))
      longMap == LongMap(sig.options, Len(sig.options))
  IN IF normalizedName \notin DOMAIN longMap
     THEN IF sig.acceptsRest
          THEN [s EXCEPT !.rest = Append(s.rest, token), !.i = s.i + 1]
          ELSE [s EXCEPT !.result = ErrorResult("unknown option", name, c)]
     ELSE LET optDef == longMap[normalizedName]
          IN IF optDef.acceptsValue
             THEN IF hasValue
                  THEN [s EXCEPT !.opts = SetProperty(s.opts, optDef.long, Str(value)),
                                 !.i = s.i + 1]
                  ELSE IF s.i + 1 <= Len(argv) /\ ~StartsWith(argv[s.i + 1], <<"-">>)
                  THEN [s EXCEPT !.opts = SetProperty(s.opts, optDef.long, Str(argv[s.i + 1])),
                                 !.i = s.i + 2]
                  ELSE [s EXCEPT !.result = ErrorResult("requires a value", optDef.long, c)]
             ELSE IF hasValue
                  THEN [s EXCEPT !.result = ErrorResult("does not accept a value", optDef.long, c)]
                  ELSE [s EXCEPT !.opts = SetProperty(s.opts, optDef.long, BoolTrue),
                                 !.i = s.i + 1]

\* if (!stopParsing && token.startsWith("--"))
LongBranch(argv, c, s) ==
  LET sig == c.signature
      token == argv[s.i]
      eqIdx == IndexOf(token, "=")
      name == IF eqIdx # 0 THEN SubSeq(token, 1, eqIdx - 1) ELSE token
      hasValue == eqIdx # 0
      value == IF eqIdx # 0 THEN SubSeq(token, eqIdx + 1, Len(token)) ELSE <<>>
      normalizedName == Dashes \o ToLowerCase(SubSeq(name, 3, Len(name)))
      longMap == LongMap(sig.options, Len(sig.options))
  IN IF normalizedName \notin DOMAIN longMap
     THEN IF sig.acceptsRest
          THEN [s EXCEPT !.rest = Append(s.rest, token), !.i = s.i + 1]
          ELSE [s EXCEPT !.result = ErrorResult("unknown option", name, c)]
     ELSE LET optDef == longMap[normalizedName]
          IN IF optDef.acceptsValue
             THEN IF hasValue
                  THEN [s EXCEPT !.opts = SetProperty(s.opts, optDef.long, Str(value)),
                                 !.i = s.i + 1]
                  ELSE IF s.i + 1 <= Len(argv) /\ ~StartsWith(argv[s.i + 1], <<"-">>)
                  THEN [s EXCEPT !.opts = SetProperty(s.opts, optDef.long, Str(argv[s.i + 1])),
                                 !.i = s.i + 2]
                  ELSE [s EXCEPT !.result = ErrorResult("requires a value", optDef.long, c)]
             ELSE IF hasValue
                  THEN [s EXCEPT !.result = ErrorResult("does not accept a value", optDef.long, c)]
                  ELSE [s EXCEPT !.opts = SetProperty(s.opts, optDef.long, BoolTrue),
                                 !.i = s.i + 1]

\* ShortBranch with an unknown short option failing even when rest is accepted
ShortBranchNoRest(argv, c, s) ==
  LET sig == c.signature
      token == argv[s.i]
      shortMap == ShortMap(sig.options, Len(sig.options))
  IN IF token \notin DOMAIN shortMap
     THEN [s EXCEPT !.result = ErrorResult("unknown option", token, c)]
     ELSE LET optDef == shortMap[token]
          IN IF optDef.acceptsValue
             THEN IF s.i + 1 <= Len(argv)
                  THEN [s EXCEPT !.opts = SetProperty(s.opts, optDef.long, Str(argv[s.i + 1])),
                                 !.i = s.i + 2]
                  ELSE [s EXCEPT !.result = ErrorResult("requires a value", optDef.long, c)]
             ELSE [s EXCEPT !.opts = SetProperty(s.opts, optDef.long, BoolTrue),
                            !.i = s.i + 1]

\* ShortBranch taking every short option for a flag
ShortBranchAlwaysFlag(argv, c, s) ==
  LET sig == c.signature
      token == argv[s.i]
      shortMap == ShortMap(sig.options, Len(sig.options))
  IN IF token \notin DOMAIN shortMap
     THEN IF sig.acceptsRest
          THEN [s EXCEPT !.rest = Append(s.rest, token), !.i = s.i + 1]
          ELSE [s EXCEPT !.result = ErrorResult("unknown option", token, c)]
     ELSE [s EXCEPT !.opts = SetProperty(s.opts, shortMap[token].long, BoolTrue),
                    !.i = s.i + 1]

\* if (!stopParsing && token.startsWith("-") && token.length > 1 && !token.startsWith("--"))
ShortBranch(argv, c, s) ==
  LET sig == c.signature
      token == argv[s.i]
      shortMap == ShortMap(sig.options, Len(sig.options))
  IN IF token \notin DOMAIN shortMap
     THEN IF sig.acceptsRest
          THEN [s EXCEPT !.rest = Append(s.rest, token), !.i = s.i + 1]
          ELSE [s EXCEPT !.result = ErrorResult("unknown option", token, c)]
     ELSE LET optDef == shortMap[token]
          IN IF optDef.acceptsValue
             THEN IF s.i + 1 <= Len(argv)
                  THEN [s EXCEPT !.opts = SetProperty(s.opts, optDef.long, Str(argv[s.i + 1])),
                                 !.i = s.i + 2]
                  ELSE [s EXCEPT !.result = ErrorResult("requires a value", optDef.long, c)]
             ELSE [s EXCEPT !.opts = SetProperty(s.opts, optDef.long, BoolTrue),
                            !.i = s.i + 1]

\* PositionalBranch with positionalIndex never advanced
PositionalBranchNoAdvance(argv, c, s) ==
  LET sig == c.signature
      token == argv[s.i]
  IN IF s.positionalIndex < Len(sig.args)
     THEN [s EXCEPT !.args = SetProperty(s.args, sig.args[s.positionalIndex + 1].name, token),
                    !.i = s.i + 1]
     ELSE IF sig.acceptsRest
     THEN [s EXCEPT !.rest = Append(s.rest, token), !.i = s.i + 1]
     ELSE [s EXCEPT !.result = ErrorResult("unexpected argument", token, c)]

\* PositionalBranch passing over a token that finds no argument to bind
PositionalBranchDropping(argv, c, s) ==
  LET sig == c.signature
      token == argv[s.i]
  IN IF s.positionalIndex < Len(sig.args)
     THEN [s EXCEPT !.args = SetProperty(s.args, sig.args[s.positionalIndex + 1].name, token),
                    !.positionalIndex = s.positionalIndex + 1,
                    !.i = s.i + 1]
     ELSE IF sig.acceptsRest
     THEN [s EXCEPT !.i = s.i + 1]
     ELSE [s EXCEPT !.result = ErrorResult("unexpected argument", token, c)]

\* // Positional
PositionalBranch(argv, c, s) ==
  LET sig == c.signature
      token == argv[s.i]
  IN IF s.positionalIndex < Len(sig.args)
     THEN [s EXCEPT !.args = SetProperty(s.args, sig.args[s.positionalIndex + 1].name, token),
                    !.positionalIndex = s.positionalIndex + 1,
                    !.i = s.i + 1]
     ELSE IF sig.acceptsRest
     THEN [s EXCEPT !.rest = Append(s.rest, token), !.i = s.i + 1]
     ELSE [s EXCEPT !.result = ErrorResult("unexpected argument", token, c)]

\* // Validate required args, then return { args, options: opts, rest }
ValidateRequired(c, s) ==
  LET sig == c.signature
      missing == {j \in 1..Len(sig.args) :
                    sig.args[j].required /\ ~In(sig.args[j].name, s.args)}
  IN IF missing # {}
     THEN LET j == CHOOSE j \in missing : \A k \in missing : j <= k
          IN [s EXCEPT !.result = ErrorResult("missing required argument", sig.args[j].name, c)]
     ELSE [s EXCEPT !.result = SuccessResult(s.args, s.opts, s.rest)]

\* one iteration of the for loop, or the code after the loop
LoopBody(argv, c, s) ==
  IF s.i > Len(argv) THEN ValidateRequired(c, s)
  ELSE LET token == argv[s.i]
       IN IF IsStopToken(token, s) THEN StopBranch(s)
          ELSE IF IsHelpToken(token, s) THEN HelpBranch(s)
          ELSE IF IsLongToken(token, s) THEN LongBranch(argv, c, s)
          ELSE IF IsShortToken(token, s) THEN ShortBranch(argv, c, s)
          ELSE PositionalBranch(argv, c, s)

RECURSIVE RunScan(_, _, _)
RunScan(argv, c, s) ==
  LET Continue(t) == RunScan(argv, c, t)
  IN IF s.result # Running THEN s.result ELSE TheOne({Continue(v) : v \in {LoopBody(argv, c, s)}})

\* parseArgv(argv, cmd)
parseArgv(argv, c) == RunScan(argv, c, ScanInit)

(***************************************************************************)
(* Inputs: signature declarations and argv                                 *)
(***************************************************************************)

\* bounds of the model
MaxItems == 3
MaxArgv == 3

SeqsUpTo(S, n) == UNION {[1..k -> S] : k \in 0..n}

\* a declaration is the list of pieces a signature string is written from;
\* Source(decl) is the string handed to parseSignature
ArgItem(name, optional, desc) ==
  [kind |-> "arg", name |-> name, mark |-> optional, desc |-> desc]
OptItem(name, equals, desc) ==
  [kind |-> "opt", name |-> name, mark |-> equals, desc |-> desc]
RestItem == [kind |-> "rest", name |-> <<>>, mark |-> FALSE, desc |-> <<>>]

ItemSource(it) ==
  IF it.kind = "rest" THEN <<".", ".", ".">>
  ELSE <<"{">> \o (IF it.kind = "opt" THEN <<"-", "-">> ELSE <<>>) \o it.name
       \o (IF it.mark THEN (IF it.kind = "opt" THEN <<"=">> ELSE <<"?">>) ELSE <<>>)
       \o (IF it.desc # <<>> THEN <<" ">> \o it.desc ELSE <<>>)
       \o <<"}">>

RECURSIVE ItemsSource(_, _)
ItemsSource(items, k) ==
  IF k > Len(items) THEN <<>>
  ELSE <<" ">> \o ItemSource(items[k]) \o ItemsSource(items, k + 1)

Source(decl) == decl.name \o ItemsSource(decl.items, 1)

\* declarations the signature compiler is exercised with
CompileItems ==
  { ArgItem(<<"a">>, FALSE, <<>>),
    ArgItem(<<"b">>, TRUE, <<>>),
    ArgItem(<<"c">>, FALSE, <<"t","h","e"," ","c">>),
    ArgItem(<<"a">>, TRUE, <<>>),
    OptItem(<<"F","o","o","-","B","a","r">>, TRUE, <<>>),
    OptItem(<<"f","o","o","B","a","r">>, FALSE, <<>>),
    OptItem(<<"f","o","o">>, TRUE, <<"o","u","t"," ","d","i","r">>),
    OptItem(<<"F","o","o">>, FALSE, <<>>),
    OptItem(<<"F","a","b">>, FALSE, <<>>),
    OptItem(<<"p","r","e","s","e","r","v","E","-","c","a","c","h","e">>, FALSE, <<>>),
    OptItem(<<"n","o","-","C","_","x","-","-","Z","9">>, TRUE, <<>>),
    OptItem(<<"a","-","b","C">>, FALSE, <<>>),
    RestItem }

\* what may stand where the command name is expected: nothing, whitespace,
\* braces that hold nothing, a braced group
CompileNames ==
  { <<>>, <<" ">>, <<"{", "}">>, <<"}", "{">>,
    <<"{", "t", "a", "r", "g", "e", "t", "}">>,
    <<"{", "-", "-", "F", "o", "o", "}">> }

\* a name followed by braces that hold nothing or close nothing
StrayNames ==
  { <<"x", " ", "{", "}">>,
    <<"x", " ", "}">>,
    <<"x", " ", "{", "a", "}", "}">>,
    <<"x", " ", "{">> }

CompileDecls ==
  { [name |-> <<"x">>, items |-> its] : its \in SeqsUpTo(CompileItems, MaxItems) }
  \cup { [name |-> n, items |-> its] :
           n \in CompileNames,
           its \in {<<>>, <<ArgItem(<<"a">>, FALSE, <<>>)>>, <<RestItem>>} }
  \cup { [name |-> n, items |-> <<>>] : n \in StrayNames }

\* signatures the argv matcher is exercised with
ArgT == ArgItem(<<"t">>, FALSE, <<>>)
ArgM == ArgItem(<<"m">>, TRUE, <<>>)
ArgConstructor == ArgItem(<<"c","o","n","s","t","r","u","c","t","o","r">>, FALSE, <<>>)
OptOut == OptItem(<<"O","u","t">>, TRUE, <<>>)
OptOpt == OptItem(<<"O","p","t">>, FALSE, <<>>)
OptHelp == OptItem(<<"h","e","l","p">>, TRUE, <<>>)

MatchDecls ==
  { [name |-> <<"r","u","n">>, items |-> <<RestItem>>],
    [name |-> <<"u","p">>, items |-> <<>>],
    [name |-> <<"b">>, items |-> <<ArgT, ArgM>>],
    [name |-> <<"b">>, items |-> <<ArgConstructor>>],
    [name |-> <<"b">>, items |-> <<OptOut>>],
    [name |-> <<"b">>, items |-> <<OptOut, RestItem>>],
    [name |-> <<"b">>, items |-> <<ArgT, OptOut, OptOpt>>],
    [name |-> <<"b">>, items |-> <<OptHelp>>],
    [name |-> <<"b">>, items |-> <<ArgM, OptOpt, RestItem>>],
    [name |-> <<"b">>, items |-> <<OptOpt, OptOut>>] }

TokA == <<"a">>
TokOutLong == <<"-","-","O","u","t">>
TokOutEq == <<"-","-","o","u","t","=","v","=","w">>
TokOutShort == <<"-","O">>
TokUnknownLong == <<"-","-","z","z","=","1">>
TokUnknownShort == <<"-","x">>

ArgvTokens ==
  { Dashes, HelpLong, HelpShort, TokA, TokOutLong, TokOutEq, TokOutShort,
    TokUnknownLong, TokUnknownShort }

Argvs == SeqsUpTo(ArgvTokens, MaxArgv)

(***************************************************************************)
(* State                                                                   *)
(***************************************************************************)
VARIABLES
  decl,             \* the declaration the signature string was written from
  signature,        \* the signature string
  parsed,           \* what parseSignature returned or threw; NotParsed before
  cmd,              \* the Command under match
  argv,             \* the tokens handed to parseArgv
  i, args, opts, rest, positionalIndex, stopParsing,   \* locals of parseArgv
  result,           \* the value parseArgv returned; Running before
  rootGroup,        \* the default namespace
  groups,           \* Map from prefix to Group
  thrown,           \* what the last configuration call threw; NoError if nothing
  calls,            \* configuration calls made so far
  builderCalls,     \* the CommandBuilder calls among them, in order
  processArgv,      \* process.argv.slice(2)
  pc,               \* where the process is: "config", "child", "awaiting",
                    \* "returned" (init resolved), "exited"
  stdout, stderr,   \* what has been written to the two streams
  exitCode,         \* <<code>> once process.exit(code) ran, <<>> before
  children,         \* the children nodeSpawn returned to zet.init
  invoked,          \* invocations of a command's callback by zet.init
  parsedArgs, parsedOptions, restArgs, matchedCommand,   \* module variables
  parts,            \* the argument of flattenParts
  flat,             \* what flattenParts returned; NotFlattened before
  helpText          \* what formatCommandHelp returned; NULL before

registryVars == <<rootGroup, groups, thrown, calls, builderCalls>>
processVars == <<processArgv, pc, stdout, stderr, exitCode, children, invoked>>
boundVars == <<parsedArgs, parsedOptions, restArgs, matchedCommand>>
flattenVars == <<parts, flat>>
helpVars == <<helpText>>
zetVars == <<registryVars, processVars, boundVars, flattenVars, helpVars>>

vars == <<decl, signature, parsed, cmd, argv,
          i, args, opts, rest, positionalIndex, stopParsing, result, zetVars>>

NotParsed == [ok |-> FALSE, error |-> "not parsed", what |-> <<>>]
NoCommand == [name |-> <<>>]
NotFlattened == [returned |-> FALSE, value |-> <<>>]
NoExit == <<>>

\* the module state of index.mjs when it has been loaded and nothing has
\* been registered
RegistryEmpty ==
  /\ rootGroup = Group(<<>>, <<"C","o","m","m","a","n","d","s">>)
  /\ groups = <<>>
  /\ thrown = NoError
  /\ calls = 0
  /\ builderCalls = <<>>

BoundEmpty ==
  /\ parsedArgs = EmptyObject
  /\ parsedOptions = EmptyObject
  /\ restArgs = <<>>
  /\ matchedCommand = NoCommand

ProcessIdle ==
  /\ processArgv = <<>>
  /\ pc = "config"
  /\ stdout = <<>>
  /\ stderr = <<>>
  /\ exitCode = NoExit
  /\ children = <<>>
  /\ invoked = 0

FlattenIdle ==
  /\ parts = <<>>
  /\ flat = NotFlattened

HelpIdle == helpText = NULL


scanVars == <<i, args, opts, rest, positionalIndex, stopParsing, result>>

\* the locals of parseArgv as one record, and back
Scan ==
  [i |-> i, args |-> args, opts |-> opts, rest |-> rest,
   positionalIndex |-> positionalIndex, stopParsing |-> stopParsing,
   result |-> result]

SetScan(s) ==
  /\ i' = s.i
  /\ args' = s.args
  /\ opts' = s.opts
  /\ rest' = s.rest
  /\ positionalIndex' = s.positionalIndex
  /\ stopParsing' = s.stopParsing
  /\ result' = s.result

ScanIdle ==
  /\ i = ScanInit.i
  /\ args = ScanInit.args
  /\ opts = ScanInit.opts
  /\ rest = ScanInit.rest
  /\ positionalIndex = ScanInit.positionalIndex
  /\ stopParsing = ScanInit.stopParsing
  /\ result = ScanInit.result

(***************************************************************************)
(* The signature compiler: parseSignature applied to a signature string    *)
(***************************************************************************)
InitCompile ==
  /\ decl \in CompileDecls
  /\ signature = Source(decl)
  /\ parsed = NotParsed
  /\ cmd = NoCommand
  /\ argv = <<>>
  /\ ScanIdle
  /\ RegistryEmpty /\ BoundEmpty /\ ProcessIdle /\ FlattenIdle /\ HelpIdle

Compile ==
  /\ parsed = NotParsed
  /\ parsed' = parseSignature(signature)
  /\ UNCHANGED <<decl, signature, cmd, argv, scanVars, zetVars>>

\* the namespaces and descriptions a command is rendered with
HelpGroups == {NULL, <<"b","e">>}
HelpDescriptions == {NULL, <<"d">>}

\* formatCommandHelp on a command made from the compiled signature
Help ==
  /\ parsed.ok
  /\ helpText = NULL
  /\ \E g \in HelpGroups, text \in HelpDescriptions :
       cmd' = CommandBuilder_description(Command(parsed.name, g, parsed), text)
  /\ helpText' = formatCommandHelp(cmd')
  /\ UNCHANGED <<decl, signature, parsed, argv, scanVars,
                 registryVars, processVars, boundVars, flattenVars>>

NextCompile == Compile \/ Help

SpecCompile == InitCompile /\ [][NextCompile]_vars

(***************************************************************************)
(* The argv matcher: parseArgv, one loop iteration per step, on a command  *)
(* made as the parseArgv tests make it (makeCmd)                           *)
(***************************************************************************)
Init ==
  /\ decl \in MatchDecls
  /\ signature = Source(decl)
  /\ parsed = parseSignature(signature)
  /\ parsed.ok
  /\ cmd = Command(parsed.name, NULL, parsed)
  /\ argv \in Argvs
  /\ ScanIdle
  /\ RegistryEmpty /\ BoundEmpty /\ ProcessIdle /\ FlattenIdle /\ HelpIdle

Scanning == result = Running /\ i <= Len(argv)

TokenStop ==
  /\ Scanning
  /\ IsStopToken(argv[i], Scan)
  /\ SetScan(StopBranch(Scan))
  /\ UNCHANGED <<decl, signature, parsed, cmd, argv, zetVars>>

TokenHelp ==
  /\ Scanning
  /\ ~IsStopToken(argv[i], Scan)
  /\ IsHelpToken(argv[i], Scan)
  /\ SetScan(HelpBranch(Scan))
  /\ UNCHANGED <<decl, signature, parsed, cmd, argv, zetVars>>

TokenLong ==
  /\ Scanning
  /\ ~IsStopToken(argv[i], Scan)
  /\ ~IsHelpToken(argv[i], Scan)
  /\ IsLongToken(argv[i], Scan)
  /\ SetScan(LongBranch(argv, cmd, Scan))
  /\ UNCHANGED <<decl, signature, parsed, cmd, argv, zetVars>>

TokenShort ==
  /\ Scanning
  /\ ~IsStopToken(argv[i], Scan)
  /\ ~IsHelpToken(argv[i], Scan)
  /\ ~IsLongToken(argv[i], Scan)
  /\ IsShortToken(argv[i], Scan)
  /\ SetScan(ShortBranch(argv, cmd, Scan))
  /\ UNCHANGED <<decl, signature, parsed, cmd, argv, zetVars>>

\* TokenPositional taking the token out of argv, as argv.splice(i, 1) would
TokenPositionalConsuming ==
  /\ Scanning
  /\ ~IsStopToken(argv[i], Scan)
  /\ ~IsHelpToken(argv[i], Scan)
  /\ ~IsLongToken(argv[i], Scan)
  /\ ~IsShortToken(argv[i], Scan)
  /\ SetScan(PositionalBranch(argv, cmd, Scan))
  /\ argv' = SubSeq(argv, 1, i - 1) \o SubSeq(argv, i + 1, Len(argv))
  /\ UNCHANGED <<decl, signature, parsed, cmd, zetVars>>

TokenPositional ==
  /\ Scanning
  /\ ~IsStopToken(argv[i], Scan)
  /\ ~IsHelpToken(argv[i], Scan)
  /\ ~IsLongToken(argv[i], Scan)
  /\ ~IsShortToken(argv[i], Scan)
  /\ SetScan(PositionalBranch(argv, cmd, Scan))
  /\ UNCHANGED <<decl, signature, parsed, cmd, argv, zetVars>>

EndOfArgv ==
  /\ result = Running
  /\ i > Len(argv)
  /\ SetScan(ValidateRequired(cmd, Scan))
  /\ UNCHANGED <<decl, signature, parsed, cmd, argv, zetVars>>

Next ==
  \/ TokenStop
  \/ TokenHelp
  \/ TokenLong
  \/ TokenShort
  \/ TokenPositional
  \/ EndOfArgv

Spec == Init /\ [][Next]_vars

\* parseArgv has returned
Returned == result # Running
Succeeded == Returned /\ "args" \in DOMAIN result
Failed == Returned /\ "error" \in DOMAIN result

\* the step machine and the function agree
ScanAgrees == Returned => result = parseArgv(argv, cmd)

(***************************************************************************)
(* The registry: the calls a configuration file makes before zet.init      *)
(***************************************************************************)
MaxCalls == 3

NameUp == <<"u", "p">>
NameBe == <<"b", "e">>
SigUp == Source([name |-> NameUp, items |-> <<>>])
SigUpT == Source([name |-> NameUp, items |-> <<ArgT>>])
SigBe == Source([name |-> NameBe, items |-> <<RestItem>>])
SigUpNow == NameUp \o <<" ", "n", "o", "w">>
RegisterSignatures == {SigUp, SigUpT, SigBe, SigUpNow}

Prefixes == {NameBe, Reserved}
GroupDescription == <<"B", "E">>

Texts == {<<"d">>}
PartsEcho == <<Lit(<<"e","c","h","o">>), Lit(<<"h","i">>)>>
PartsRest == <<REST_PLACEHOLDER>>
PartsInputs == {PartsEcho, PartsRest}
\* what a callback does when it is called: return a value, throw, return a
\* promise that resolves, return a promise that rejects
Callbacks == {"returns", "throws", "resolves", "rejects"}

\* the namespaces: 0 is the default one, j >= 1 the j-th entry of groups
GroupAt(n) == IF n = 0 THEN rootGroup ELSE groups[n].value
PutGroup(n, g) ==
  IF n = 0 THEN rootGroup' = g /\ UNCHANGED groups
  ELSE groups' = MapSet(groups, groups[n].key, g) /\ UNCHANGED rootGroup
PutCommand(n, k, c) ==
  PutGroup(n, [GroupAt(n) EXCEPT !.commands = MapSet(@, @[k].key, c)])

Configuring == pc = "config" /\ calls < MaxCalls

\* a call on the builder of command k of namespace n
BuilderCall(call, n, k, ps, fn) ==
  [call |-> call, n |-> n, k |-> k, parts |-> ps, fn |-> fn]
Called(e) == thrown' = e /\ calls' = calls + 1

InitRegistry ==
  /\ decl = [name |-> <<>>, items |-> <<>>]
  /\ signature = <<>>
  /\ parsed = NotParsed
  /\ cmd = NoCommand
  /\ argv = <<>>
  /\ ScanIdle
  /\ RegistryEmpty /\ BoundEmpty /\ ProcessIdle /\ FlattenIdle /\ HelpIdle

notRegistry ==
  <<decl, signature, parsed, cmd, argv, scanVars, processVars, boundVars, flattenVars, helpVars>>

\* zet.register(signature)
ZetRegister ==
  /\ Configuring
  /\ \E sig \in RegisterSignatures :
       LET r == Group_register(rootGroup, sig)
       IN PutGroup(0, r.group) /\ Called(r.thrown)
  /\ UNCHANGED builderCalls
  /\ UNCHANGED notRegistry

\* g.register(signature) on a group zet.group returned
GroupRegister ==
  /\ Configuring
  /\ \E n \in 1..Len(groups), sig \in RegisterSignatures :
       LET r == Group_register(GroupAt(n), sig)
       IN PutGroup(n, r.group) /\ Called(r.thrown)
  /\ UNCHANGED builderCalls
  /\ UNCHANGED notRegistry

\* zet.group(prefix, description)
ZetGroup ==
  /\ Configuring
  /\ \E prefix \in Prefixes :
       LET r == zet_group(groups, prefix, GroupDescription)
       IN groups' = r.groups /\ Called(r.thrown)
  /\ UNCHANGED <<rootGroup, builderCalls>>
  /\ UNCHANGED notRegistry

\* builder.description(text) on the builder of a registered command
BuilderDescription ==
  /\ Configuring
  /\ \E n \in 0..Len(groups) : \E k \in 1..Len(GroupAt(n).commands), text \in Texts :
       /\ PutCommand(n, k, CommandBuilder_description(GroupAt(n).commands[k].value, text))
       /\ builderCalls' = Append(builderCalls, BuilderCall("description", n, k, <<>>, "none"))
  /\ Called(NoError)
  /\ UNCHANGED notRegistry

\* builder.command(...parts)
BuilderCommand ==
  /\ Configuring
  /\ \E n \in 0..Len(groups) : \E k \in 1..Len(GroupAt(n).commands), ps \in PartsInputs :
       /\ PutCommand(n, k, CommandBuilder_command(GroupAt(n).commands[k].value, ps))
       /\ builderCalls' = Append(builderCalls, BuilderCall("command", n, k, ps, "none"))
  /\ Called(NoError)
  /\ UNCHANGED notRegistry

\* builder.callback(fn)
BuilderCallback ==
  /\ Configuring
  /\ \E n \in 0..Len(groups) : \E k \in 1..Len(GroupAt(n).commands), fn \in Callbacks :
       /\ PutCommand(n, k, CommandBuilder_callback(GroupAt(n).commands[k].value, fn))
       /\ builderCalls' = Append(builderCalls, BuilderCall("callback", n, k, <<>>, fn))
  /\ Called(NoError)
  /\ UNCHANGED notRegistry

NextRegistry ==
  \/ ZetRegister
  \/ GroupRegister
  \/ ZetGroup
  \/ BuilderDescription
  \/ BuilderCommand
  \/ BuilderCallback

SpecRegistry == InitRegistry /\ [][NextRegistry]_vars

(***************************************************************************)
(* The dispatcher: zet.init on a loaded configuration                      *)
(***************************************************************************)

\* what is written to a stream, by the function that formats it
GlobalHelp == [kind |-> "formatGlobalHelp"]
CommandHelp(c) == [kind |-> "formatCommandHelp", name |-> c.name, group |-> c.group]
ErrorLine(msg, what) == [kind |-> "error", msg |-> msg, what |-> what]
UsageLine(c) == [kind |-> "formatUsageLine", name |-> c.name, group |-> c.group]
UncaughtError == [kind |-> "formatUncaughtError"]

\* the entry test of zet.init knowing '--help' only
EntryHelpLongOnly(a) == Len(a) = 0 \/ a[1] = HelpLong

\* the entry test of zet.init: no token, or a help flag first
EntryHelp(a) == Len(a) = 0 \/ a[1] = HelpLong \/ a[1] = HelpShort

\* command resolution looking in the default namespace before the groups
ResolveRootFirst(a, root, gs) ==
  IF MapHas(root.commands, a[1])
  THEN [path |-> "matched", targetCmd |-> MapGet(root.commands, a[1]),
        remainingArgv |-> SubSeq(a, 2, Len(a))]
  ELSE IF ~MapHas(gs, a[1])
  THEN [path |-> "unknown command", what |-> <<a[1]>>]
  ELSE IF Len(a) < 2
  THEN [path |-> "missing command for group", what |-> <<a[1]>>]
  ELSE IF a[2] = HelpLong \/ a[2] = HelpShort
  THEN [path |-> "group help"]
  ELSE IF MapHas(MapGet(gs, a[1]).commands, a[2])
  THEN [path |-> "matched", targetCmd |-> MapGet(MapGet(gs, a[1]).commands, a[2]),
        remainingArgv |-> SubSeq(a, 3, Len(a))]
  ELSE [path |-> "unknown command", what |-> <<a[1], a[2]>>]

\* command resolution of zet.init for a non-empty argv
Resolve(a, root, gs) ==
  IF MapHas(gs, a[1])
  THEN IF Len(a) < 2
       THEN [path |-> "missing command for group", what |-> <<a[1]>>]
       ELSE IF a[2] = HelpLong \/ a[2] = HelpShort
       THEN [path |-> "group help"]
       ELSE IF MapHas(MapGet(gs, a[1]).commands, a[2])
       THEN [path |-> "matched",
             targetCmd |-> MapGet(MapGet(gs, a[1]).commands, a[2]),
             remainingArgv |-> SubSeq(a, 3, Len(a))]
       ELSE [path |-> "unknown command", what |-> <<a[1], a[2]>>]
  ELSE IF MapHas(root.commands, a[1])
  THEN [path |-> "matched", targetCmd |-> MapGet(root.commands, a[1]),
        remainingArgv |-> SubSeq(a, 2, Len(a))]
  ELSE [path |-> "unknown command", what |-> <<a[1]>>]

\* process.exit(code ?? 1) in the child's close listener; <<>> is null
CloseCode(code) == IF code = <<>> THEN 1 ELSE code[1]

\* the await of the callback where a rejection is not caught by the try
AwaitedIgnoringRejection(fn) == "returned"

\* await targetCmd.callback() once the call has returned: a rejected promise
\* is thrown into the catch block, anything else lets init return
Awaited(fn) == IF fn = "rejects" THEN "caught" ELSE "returned"

\* the Execute part of zet.init for the matched command, restArgs assigned
Execute(targetCmd, restTokens) ==
  IF targetCmd.type = "command"
  THEN LET Spawned(flattened) ==
             IF SpawnThrows(flattened)
             THEN [stderr |-> <<[kind |-> "TypeError"]>>, exitCode |-> <<1>>,
                   pc |-> "exited"]
             ELSE [children |-> <<Child(flattened)>>, pc |-> "child"]
       IN TheOne({Spawned(v) : v \in {flattenParts(targetCmd.parts, restTokens)}})
  ELSE IF targetCmd.type = "callback"
  THEN IF targetCmd.callback = "throws"
       THEN [invoked |-> 1, stderr |-> <<UncaughtError>>, exitCode |-> <<1>>,
             pc |-> "exited"]
       ELSE [invoked |-> 1, pc |-> "awaiting"]
  ELSE [stderr |-> <<ErrorLine("has no action defined", targetCmd.name)>>,
        exitCode |-> <<1>>, pc |-> "exited"]

\* zet.init going on to the action after it wrote a match error
zet_initActingOnError(a, root, gs) ==
  IF EntryHelp(a)
  THEN [stdout |-> <<GlobalHelp>>, exitCode |-> <<0>>, pc |-> "exited"]
  ELSE LET Resolved(r) ==
             IF r.path = "group help"
             THEN [stdout |-> <<GlobalHelp>>, exitCode |-> <<0>>, pc |-> "exited"]
             ELSE IF r.path # "matched"
             THEN [stderr |-> <<ErrorLine(r.path, r.what)>>, exitCode |-> <<1>>,
                   pc |-> "exited"]
             ELSE LET Parsed(res) ==
                        [cmd |-> r.targetCmd, argv |-> r.remainingArgv,
                         matchedCommand |-> r.targetCmd, result |-> res]
                        @@ (IF "help" \in DOMAIN res
                            THEN [stdout |-> <<CommandHelp(r.targetCmd)>>,
                                  exitCode |-> <<0>>, pc |-> "exited"]
                            ELSE IF "error" \in DOMAIN res
                            THEN [stderr |-> <<ErrorLine(res.error.msg, res.error.what),
                                               UsageLine(res.cmd)>>]
                                 @@ Execute(r.targetCmd, <<>>)
                            ELSE [parsedArgs |-> res.args,
                                  parsedOptions |-> res.options,
                                  restArgs |-> res.rest]
                                 @@ Execute(r.targetCmd, res.rest))
                  IN TheOne({Parsed(v) : v \in {parseArgv(r.remainingArgv, r.targetCmd)}})
       IN TheOne({Resolved(v) : v \in {Resolve(a, root, gs)}})

\* zet.init up to the point where it exits, waits for the child to close or
\* awaits the callback: the variables it assigns and what it writes
zet_init(a, root, gs) ==
  IF EntryHelp(a)
  THEN [stdout |-> <<GlobalHelp>>, exitCode |-> <<0>>, pc |-> "exited"]
  ELSE LET Resolved(r) ==
             IF r.path = "group help"
             THEN [stdout |-> <<GlobalHelp>>, exitCode |-> <<0>>, pc |-> "exited"]
             ELSE IF r.path # "matched"
             THEN [stderr |-> <<ErrorLine(r.path, r.what)>>, exitCode |-> <<1>>,
                   pc |-> "exited"]
             ELSE LET Parsed(res) ==
                        [cmd |-> r.targetCmd, argv |-> r.remainingArgv,
                         matchedCommand |-> r.targetCmd, result |-> res]
                        @@ (IF "help" \in DOMAIN res
                            THEN [stdout |-> <<CommandHelp(r.targetCmd)>>,
                                  exitCode |-> <<0>>, pc |-> "exited"]
                            ELSE IF "error" \in DOMAIN res
                            THEN [stderr |-> <<ErrorLine(res.error.msg, res.error.what),
                                               UsageLine(res.cmd)>>,
                                  exitCode |-> <<1>>, pc |-> "exited"]
                            ELSE [parsedArgs |-> res.args,
                                  parsedOptions |-> res.options,
                                  restArgs |-> res.rest]
                                 @@ Execute(r.targetCmd, res.rest))
                  IN TheOne({Parsed(v) : v \in {parseArgv(r.remainingArgv, r.targetCmd)}})
       IN TheOne({Resolved(v) : v \in {Resolve(a, root, gs)}})

\* configurations: what a config file has registered when it calls zet.init
Unset == [type |-> "null"]
Subprocess(ps) == [type |-> "command", parts |-> ps]
Callback(fn) == [type |-> "callback", fn |-> fn]
Actions == {Unset, Subprocess(PartsEcho)} \cup {Callback(fn) : fn \in Callbacks}

\* g.register(signature) followed by the builder call that sets the action
Registered(g, sig, action) ==
  LET Built(c) ==
        IF action.type = "command" THEN CommandBuilder_command(c, action.parts)
        ELSE IF action.type = "callback" THEN CommandBuilder_callback(c, action.fn)
        ELSE c
      With(r) ==
        [r EXCEPT !.commands =
           MapSet(@, r.commands[Len(r.commands)].key,
                  Built(r.commands[Len(r.commands)].value))]
  IN TheOne({With(v) : v \in {Group_register(g, sig).group}})

RootEmpty == Group(<<>>, <<"C","o","m","m","a","n","d","s">>)

\* "up" in the default namespace; with rootBe also "be ..." spawning the
\* rest tokens; with group a namespace 'be', empty or holding "up {t}"
Configs ==
  { [rootGroup |-> IF rootBe
                   THEN Registered(Registered(RootEmpty, SigUp, a), SigBe,
                                   Subprocess(PartsRest))
                   ELSE Registered(RootEmpty, SigUp, a),
     groups |-> gs] :
      a \in Actions, rootBe \in BOOLEAN,
      gs \in {<<>>, zet_group(<<>>, NameBe, GroupDescription).groups}
           \cup { MapSet(<<>>, NameBe,
                         Registered(Group(NameBe, GroupDescription), SigUpT, b)) :
                    b \in Actions } }

ZetTokens == {NameUp, NameBe, HelpLong, HelpShort, TokA}
ZetArgvs == SeqsUpTo(ZetTokens, MaxArgv)

\* the codes a child closes with; <<>> is null, the child was killed by a
\* signal
ChildCodes == {<<>>, <<0>>, <<3>>}

InitZet ==
  /\ decl = [name |-> <<>>, items |-> <<>>]
  /\ signature = <<>>
  /\ parsed = NotParsed
  /\ cmd = NoCommand
  /\ argv = <<>>
  /\ ScanIdle
  /\ \E c \in Configs : rootGroup = c.rootGroup /\ groups = c.groups
  /\ thrown = NoError
  /\ calls = 0
  /\ builderCalls = <<>>
  /\ BoundEmpty /\ FlattenIdle /\ HelpIdle
  /\ processArgv \in ZetArgvs
  /\ pc = "config"
  /\ stdout = <<>>
  /\ stderr = <<>>
  /\ exitCode = NoExit
  /\ children = <<>>
  /\ invoked = 0

\* what zet.init leaves as it is unless it says otherwise
Unassigned ==
  [stdout |-> <<>>, stderr |-> <<>>, exitCode |-> exitCode, pc |-> pc,
   cmd |-> cmd, argv |-> argv, result |-> result,
   matchedCommand |-> matchedCommand, parsedArgs |-> parsedArgs,
   parsedOptions |-> parsedOptions, restArgs |-> restArgs,
   children |-> <<>>, invoked |-> 0]

\* await mod.default.init() in the runner, up to the first suspension
ZetInit ==
  /\ pc = "config"
  /\ LET o == zet_init(processArgv, rootGroup, groups) @@ Unassigned
     IN /\ stdout' = stdout \o o.stdout
        /\ stderr' = stderr \o o.stderr
        /\ exitCode' = o.exitCode
        /\ pc' = o.pc
        /\ cmd' = o.cmd
        /\ argv' = o.argv
        /\ result' = o.result
        /\ matchedCommand' = o.matchedCommand
        /\ parsedArgs' = o.parsedArgs
        /\ parsedOptions' = o.parsedOptions
        /\ restArgs' = o.restArgs
        /\ children' = children \o o.children
        /\ invoked' = invoked + o.invoked
  /\ UNCHANGED <<decl, signature, parsed, i, args, opts, rest, positionalIndex,
                 stopParsing, registryVars, processArgv, flattenVars, helpVars>>

\* the child's close event: process.exit(code ?? 1)
ChildClose ==
  /\ pc = "child"
  /\ \E code \in ChildCodes :
       /\ children' = [children EXCEPT ![Len(children)].closed = TRUE,
                                      ![Len(children)].code = code]
       /\ exitCode' = <<CloseCode(code)>>
       /\ pc' = "exited"
  /\ UNCHANGED <<decl, signature, parsed, cmd, argv, scanVars, registryVars,
                 processArgv, stdout, stderr, invoked, boundVars, flattenVars, helpVars>>

\* the awaited callback settles: a rejection is caught, written and exits
\* with 1; otherwise init returns
CallbackSettles ==
  /\ pc = "awaiting"
  /\ IF Awaited(cmd.callback) = "caught"
     THEN /\ stderr' = Append(stderr, UncaughtError)
          /\ exitCode' = <<1>>
          /\ pc' = "exited"
     ELSE /\ pc' = "returned"
          /\ UNCHANGED <<stderr, exitCode>>
  /\ UNCHANGED <<decl, signature, parsed, cmd, argv, scanVars, registryVars,
                 processArgv, stdout, children, invoked, boundVars, flattenVars, helpVars>>

NextZet ==
  \/ ZetInit
  \/ ChildClose
  \/ CallbackSettles

SpecZet == InitZet /\ [][NextZet]_vars

(***************************************************************************)
(* Builder calls followed by zet.init: "be ..." registered in the default  *)
(* namespace, any calls on its builder, then the dispatch                  *)
(***************************************************************************)
BuilderArgvs ==
  {<<NameBe>>, <<NameBe, TokA>>, <<NameBe, HelpShort>>, <<NameBe, TokUnknownShort>>}

InitBuilder ==
  /\ decl = [name |-> <<>>, items |-> <<>>]
  /\ signature = <<>>
  /\ parsed = NotParsed
  /\ cmd = NoCommand
  /\ argv = <<>>
  /\ ScanIdle
  /\ rootGroup = Group_register(RootEmpty, SigBe).group
  /\ groups = <<>>
  /\ thrown = NoError
  /\ calls = 0
  /\ builderCalls = <<>>
  /\ BoundEmpty /\ FlattenIdle /\ HelpIdle
  /\ processArgv \in BuilderArgvs
  /\ pc = "config"
  /\ stdout = <<>>
  /\ stderr = <<>>
  /\ exitCode = NoExit
  /\ children = <<>>
  /\ invoked = 0

NextBuilder ==
  \/ BuilderDescription
  \/ BuilderCommand
  \/ BuilderCallback
  \/ ZetInit
  \/ ChildClose
  \/ CallbackSettles

SpecBuilder == InitBuilder /\ [][NextBuilder]_vars

(***************************************************************************)
(* Part expansion: flattenParts applied to the parts of a command          *)
(***************************************************************************)
MaxParts == 2

TokX == <<"x">>
TokY == <<"y">>
LitA == Lit(<<"a">>)
LitB == Lit(<<"b">>)
LitC == Lit(<<"c">>)
LitD == Lit(<<"d">>)

\* parts as .command(...) receives them, nested up to three levels
PartSamples ==
  { LitA,
    Num(10),
    REST_PLACEHOLDER,
    Array(<<LitB, REST_PLACEHOLDER>>),
    TemplateResult(<<LitC, Array(<<REST_PLACEHOLDER, LitD>>)>>),
    Array(<<TemplateResult(<<REST_PLACEHOLDER, Array(<<LitD, LitB>>)>>), Array(<<>>)>>),
    TemplateResult(<<>>) }

FlattenInputs == SeqsUpTo(PartSamples, MaxParts)
RestInputs == SeqsUpTo({TokX, TokY}, MaxArgv)

InitFlatten ==
  /\ decl = [name |-> <<>>, items |-> <<>>]
  /\ signature = <<>>
  /\ parsed = NotParsed
  /\ cmd = NoCommand
  /\ argv = <<>>
  /\ ScanIdle
  /\ RegistryEmpty /\ ProcessIdle /\ HelpIdle
  /\ parsedArgs = EmptyObject
  /\ parsedOptions = EmptyObject
  /\ restArgs \in RestInputs
  /\ matchedCommand = NoCommand
  /\ parts \in FlattenInputs
  /\ flat = NotFlattened

\* flattenParts(parts)
Flatten ==
  /\ flat = NotFlattened
  /\ flat' = [returned |-> TRUE, value |-> flattenParts(parts, restArgs)]
  /\ UNCHANGED <<decl, signature, parsed, cmd, argv, scanVars, registryVars,
                 processVars, boundVars, parts, helpVars>>

NextFlatten == Flatten

SpecFlatten == InitFlatten /\ [][NextFlatten]_vars

(***************************************************************************)
(* Properties of the argv matcher (specification Spec)                     *)
(***************************************************************************)
Sig == cmd.signature
Token == argv[i]

\* the declared arguments a positional token has been bound to are the
\* first positionalIndex ones
ArgName(j) == Sig.args[j].name
RequiredUnbound == {j \in 1..Len(Sig.args) : Sig.args[j].required /\ j > positionalIndex}

\* parseArgv came to the end of the tokens: no error and no help request
\* during the scan
ScanEnded == Returned /\ i > Len(argv)

\* C1: after a scan that ends without error and without help request, the
\* match fails with "missing required argument '<name>'", naming the first
\* unbound required argument in declaration order, whenever some required
\* argument was not bound by a positional token, whatever the argument is
\* called; it succeeds only when every required argument is bound.
C1_MissingRequired ==
  ScanEnded =>
    IF RequiredUnbound = {}
    THEN Succeeded
    ELSE LET j == CHOOSE j \in RequiredUnbound : \A k \in RequiredUnbound : j <= k
         IN result = ErrorResult("missing required argument", ArgName(j), cmd)

\* what the scan does with a token it handles as a positional: bound to the
\* next declared argument, else appended to rest, else "unexpected argument"
HandledAsPositional ==
  IF positionalIndex < Len(Sig.args)
  THEN /\ args' = (ArgName(positionalIndex + 1) :> Token) @@ args
       /\ positionalIndex' = positionalIndex + 1
       /\ i' = i + 1
       /\ result' = Running
       /\ UNCHANGED <<opts, rest, stopParsing>>
  ELSE IF Sig.acceptsRest
  THEN /\ rest' = Append(rest, Token)
       /\ i' = i + 1
       /\ result' = Running
       /\ UNCHANGED <<args, opts, positionalIndex, stopParsing>>
  ELSE /\ "error" \in DOMAIN result'
       /\ result'.error = [msg |-> "unexpected argument", what |-> Token]
       /\ result'.cmd = cmd

\* a token is classified as positional when option parsing has been stopped,
\* or when it is not a '-' followed by at least one more character
ClassifiedPositional ==
  stopParsing \/ ~(Len(Token) > 1 /\ Token[1] = "-")

\* the arguments bound so far are the first positionalIndex declared ones
BoundPrefix ==
  /\ positionalIndex <= Len(Sig.args)
  /\ DOMAIN args = {ArgName(j) : j \in 1..positionalIndex}

AllPlain(tokens) == \A k \in 1..Len(tokens) : tokens[k][1] # "-"

\* C2: the i-th token classified as positional is bound to the i-th declared
\* argument while there is one; a positional beyond the declared arguments is
\* appended to rest when the signature accepts rest, else the match fails
\* with "unexpected argument".  With no declared argument and rest accepted,
\* plain tokens [a, b, c] yield rest = [a, b, c] and an empty argument map.
C2_RestExample ==
  (Returned /\ Len(Sig.args) = 0 /\ Sig.acceptsRest /\ AllPlain(argv))
    => result = SuccessResult(EmptyObject, EmptyObject, argv)

C2_Positional ==
  /\ [](BoundPrefix /\ C2_RestExample)
  /\ [][(Scanning /\ ClassifiedPositional) => HandledAsPositional]_vars

\* C2 witness: of three positional tokens the first was bound to the one
\* declared argument and the other two went to rest
C2_Witness ==
  /\ Succeeded
  /\ Len(Sig.args) = 1
  /\ argv = <<TokA, TokA, TokA>>
  /\ result.args = (ArgName(1) :> TokA)
  /\ result.rest = <<TokA, TokA>>

\* the declared options
Options == {Sig.options[k] : k \in 1..Len(Sig.options)}
ValueOptions == {o \in Options : o.acceptsValue}

\* value strings that do not start with '-': empty, plain, containing '='
ValueStrings == { <<>>, <<"v">>, <<"v", "=", "w">>, <<"=">> }

WithEquals(o, v) == parseArgv(<<o.long \o <<"=">> \o v>>, cmd)
WithSpace(o, v) == parseArgv(<<o.long, v>>, cmd)

\* C3 as stated: for every signature with a value-accepting option --name
\* and every value v not starting with '-', parseArgv(["--name=v"]) and
\* parseArgv(["--name", v]) return equal results in which
\* options["--name"] = v.
C3_Original ==
  \A o \in ValueOptions : \A v \in ValueStrings :
    /\ WithEquals(o, v) = WithSpace(o, v)
    /\ "options" \in DOMAIN WithEquals(o, v)
    /\ WithEquals(o, v).options = (o.long :> Str(v))

\* C3 as amended: for every value-accepting option other than --help the two
\* forms return equal results; that result is the success with
\* options["--name"] = v, unless a required argument is reported missing.
\* Checked for every value string on the command of each state, and on the
\* scan of ["--name=v"] itself when it has returned.
C3_RoundTrip ==
  /\ (argv = <<>> /\ ~Returned) =>
       \A o \in {o \in ValueOptions : o.long # HelpLong} : \A v \in ValueStrings :
         /\ WithEquals(o, v) = WithSpace(o, v)
         /\ \/ WithEquals(o, v) = SuccessResult(EmptyObject, o.long :> Str(v), <<>>)
            \/ /\ "error" \in DOMAIN WithEquals(o, v)
               /\ WithEquals(o, v).error.msg = "missing required argument"
  /\ (Returned /\ argv = <<TokOutEq>>) =>
       \A o \in {o \in ValueOptions : o.long = <<"-", "-", "o", "u", "t">>} :
         /\ result = WithSpace(o, <<"v", "=", "w">>)
         /\ Succeeded => result.options = (o.long :> Str(<<"v", "=", "w">>))

\* C3 witness: ["--out=v=w"] was matched against a signature declaring
\* --out= and bound the value "v=w"
C3_Witness ==
  /\ Succeeded
  /\ argv = <<TokOutEq>>
  /\ result.options = (<<"-", "-", "o", "u", "t">> :> Str(<<"v", "=", "w">>))

\* the scan is at a token while option parsing is active
OptionParsing == Scanning /\ ~stopParsing

RequiresValue(o) ==
  /\ "error" \in DOMAIN result'
  /\ result' = ErrorResult("requires a value", o.long, cmd)

\* the token is the bare long name (any case, no '=') of the option
IsBareLongOf(o) ==
  /\ StartsWith(Token, Dashes)
  /\ IndexOf(Token, "=") = 0
  /\ Dashes \o ToLowerCase(SubSeq(Token, 3, Len(Token))) = o.long

\* C4: a token equal to the short flag of a value-accepting option always
\* consumes the next token as its value, whatever that token looks like, and
\* fails with "requires a value" only when it is the last token; a long
\* value option given without '=value' fails with "requires a value" when it
\* is the last token or the next token starts with '-'.
C4_ShortConsumesNext ==
  [][OptionParsing =>
       /\ \A o \in ValueOptions :
            o.short = Token =>
              IF i < Len(argv)
              THEN /\ i' = i + 2
                   /\ result' = Running
                   /\ \E q \in ValueOptions :
                        q.short = Token /\ opts' = (q.long :> Str(argv[i + 1])) @@ opts
              ELSE RequiresValue(o)
       /\ \A o \in ValueOptions :
            (Token # HelpLong /\ IsBareLongOf(o)
               /\ (i = Len(argv) \/ argv[i + 1][1] = "-"))
              => RequiresValue(o)]_vars

\* the token looks like an option and names no declared option: a '--' token
\* whose lowercased name (the text before its first '=') is no declared long
\* name, or a '-' token of more than one character that is no declared short
\* flag (compared as written).  The tokens '--', '--help' and '-h' are not
\* looked up as options at all.
LongNameOf(t) ==
  LET e == IndexOf(t, "=")
  IN IF e = 0 THEN t ELSE SubSeq(t, 1, e - 1)

UnknownOption ==
  /\ Token \notin {Dashes, HelpLong, HelpShort}
  /\ Len(Token) > 1 /\ Token[1] = "-"
  /\ IF Token[2] = "-"
     THEN \A o \in Options : o.long # ToLowerCase(LongNameOf(Token))
     ELSE \A o \in Options : o.short # Token

C6_StopParsing ==
  /\ [][(OptionParsing /\ Token = Dashes) =>
          /\ stopParsing'
          /\ i' = i + 1
          /\ result' = Running
          /\ UNCHANGED <<args, opts, rest, positionalIndex>>]_vars
  /\ [][stopParsing => stopParsing']_vars
  /\ [][(~stopParsing /\ stopParsing') => Token = Dashes]_vars
  /\ [][(Scanning /\ stopParsing) =>
          /\ HandledAsPositional
          /\ opts' = opts
          /\ result' # HelpResult]_vars

\* C6 witness: after '--', the tokens '--help' and '--' were taken as
\* positionals
C6_Witness ==
  /\ Succeeded
  /\ stopParsing
  /\ argv = <<Dashes, HelpLong, Dashes>>
  /\ \/ result.rest = <<HelpLong, Dashes>>
     \/ /\ result.rest = <<Dashes>>
        /\ result.args = (ArgName(1) :> HelpLong)

\* C7: when the scan reaches '--help' or '-h' while option parsing is
\* active, parseArgv returns the help-requested signal and nothing else:
\* whatever was bound before is dropped, the tokens that follow are not
\* looked at, and missing required arguments are not reported.
C7_HelpShortCircuits ==
  /\ [][(OptionParsing /\ Token \in {HelpLong, HelpShort}) =>
          /\ result' = HelpResult
          /\ DOMAIN result' = {"help"}]_vars
  /\ [][Returned => result' = result]_vars
  /\ [](result = HelpResult => parseArgv(argv, cmd) = HelpResult)

\* C7 witness: help was requested after an option had been bound, with a
\* token left unread and a required argument unbound
C7_Witness ==
  /\ result = HelpResult
  /\ DOMAIN opts # {}
  /\ i < Len(argv)
  /\ RequiredUnbound # {}

(***************************************************************************)
(* Properties of the signature compiler (specification SpecCompile)        *)
(***************************************************************************)
\* parseSignature has returned or thrown
Compiled == parsed # NotParsed

Items == decl.items
IsArgItem(it) == it.kind = "arg"
IsOptItem(it) == it.kind = "opt"
DeclaredOptions == SelectSeq(Items, IsOptItem)

OrderError == "Required argument cannot follow an optional argument"
UppercaseError ==
  "uppercase letters are only allowed at the start of hyphen-separated segments"

\* C8: parseSignature fails whenever a required argument is declared
\* anywhere after an optional one, also with options or '...' between them;
\* so in every compiled signature the required arguments precede the
\* optional ones.
C8_RequiredBeforeOptional ==
  Compiled =>
    /\ (\E j, k \in 1..Len(Items) :
          /\ j < k
          /\ IsArgItem(Items[j]) /\ Items[j].mark
          /\ IsArgItem(Items[k]) /\ ~Items[k].mark)
         => ~parsed.ok
    /\ parsed.ok =>
         \A j, k \in 1..Len(parsed.args) :
           (j < k /\ parsed.args[k].required) => parsed.args[j].required

\* C8 witness: a required argument after an optional one, '...' between
\* them, was rejected
C8_Witness ==
  /\ Compiled
  /\ Len(Items) = 3
  /\ IsArgItem(Items[1]) /\ Items[1].mark
  /\ Items[2] = RestItem
  /\ IsArgItem(Items[3]) /\ ~Items[3].mark
  /\ ~parsed.ok
  /\ parsed.error = OrderError

\* the short flag the declared name stands for: '-' and the uppercase
\* letters standing first in the name or right after a hyphen, in order;
\* null when there is none
SegmentStart(name, p) == p = 1 \/ name[p - 1] = "-"
ExpectedShort(name) ==
  LET IsStart(p) == IsUpper(name[p]) /\ SegmentStart(name, p)
      starts == SelectSeq([p \in 1..Len(name) |-> p], IsStart)
  IN IF starts = <<>> THEN NULL
     ELSE <<"-">> \o [k \in 1..Len(starts) |-> name[starts[k]]]

\* C9: for every accepted option the stored long name is '--' and the
\* lowercased declared name, the short flag is '-' and the first characters
\* of the segments that start with an uppercase letter (null when there is
\* none), and acceptsValue is true exactly when '=' follows the name.
C9_OptionFields ==
  (Compiled /\ parsed.ok) =>
    /\ Len(parsed.options) = Len(DeclaredOptions)
    /\ \A k \in 1..Len(DeclaredOptions) :
         /\ parsed.options[k].long = <<"-", "-">> \o ToLowerCase(DeclaredOptions[k].name)
         /\ parsed.options[k].short = ExpectedShort(DeclaredOptions[k].name)
         /\ parsed.options[k].acceptsValue = DeclaredOptions[k].mark

\* C9 witness: "--Foo-Bar=" and "--foo= out dir" were compiled: short flags
\* -FB and null
C9_Witness ==
  /\ Compiled /\ parsed.ok
  /\ Len(parsed.options) = 2
  /\ parsed.options[1].long = <<"-","-","f","o","o","-","b","a","r">>
  /\ parsed.options[1].short = <<"-","F","B">>
  /\ parsed.options[2].short = NULL
  /\ parsed.options[2].acceptsValue

\* an uppercase letter that is not the first character of a segment
Misplaced(name) ==
  \E p \in 2..Len(name) : IsUpper(name[p]) /\ name[p - 1] # "-"

\* C10: parseSignature fails for every option whose declared name has an
\* uppercase letter elsewhere than at the start of a hyphen-separated
\* segment, and fails on that rule for no other name; "x {--Foo-Bar=}"
\* compiles to --foo-bar, -FB, acceptsValue.
C10_UppercasePlacement ==
  Compiled =>
    /\ (\E k \in 1..Len(Items) : IsOptItem(Items[k]) /\ Misplaced(Items[k].name))
         => ~parsed.ok
    /\ (~parsed.ok /\ parsed.error = UppercaseError) =>
         \E k \in 1..Len(Items) :
           IsOptItem(Items[k]) /\ Items[k].name = parsed.what /\ Misplaced(parsed.what)
    /\ Items = <<OptItem(<<"F","o","o","-","B","a","r">>, TRUE, <<>>)>> =>
         parsed = [ok |-> TRUE, name |-> <<"x">>, args |-> <<>>,
                   options |-> <<[long |-> <<"-","-","f","o","o","-","b","a","r">>,
                                  short |-> <<"-","F","B">>,
                                  acceptsValue |-> TRUE,
                                  description |-> <<>>]>>,
                   acceptsRest |-> FALSE]

\* C10 witness: "--Foo" was accepted and "--a-bC", declared after it, was
\* rejected for its uppercase letter
C10_Witness ==
  /\ Compiled
  /\ Len(Items) = 2
  /\ Items[1].name = <<"F","o","o">>
  /\ ~parsed.ok
  /\ parsed.error = UppercaseError
  /\ parsed.what = <<"a","-","b","C">>

DeclaredArguments == SelectSeq(Items, IsArgItem)
DuplicateArgumentError == "Duplicate argument name"
DuplicateOptionError == "Duplicate option name"

\* two entries of a sequence of names are equal
HasRepeat(names) ==
  \E j, k \in 1..Len(names) : j < k /\ names[j] = names[k]

\* C11: parseSignature fails when two declared arguments have the same name
\* or two declared options have the same long name up to letter case; in
\* every compiled signature the argument names are pairwise distinct and so
\* are the option long names.
C11_UniqueNames ==
  Compiled =>
    /\ HasRepeat([k \in 1..Len(DeclaredArguments) |-> DeclaredArguments[k].name])
         => ~parsed.ok
    /\ HasRepeat([k \in 1..Len(DeclaredOptions) |->
                    ToLowerCase(DeclaredOptions[k].name)])
         => ~parsed.ok
    /\ parsed.ok =>
         /\ ~HasRepeat([k \in 1..Len(parsed.args) |-> parsed.args[k].name])
         /\ ~HasRepeat([k \in 1..Len(parsed.options) |-> parsed.options[k].long])

\* C11 witness: "--Foo", "--Fab" and "--foo= out dir" were declared in this
\* order and the third was reported as a duplicate of the first
C11_Witness ==
  /\ Compiled
  /\ Len(Items) = 3
  /\ Items[1].name = <<"F","o","o">>
  /\ Items[2].name = <<"F","a","b">>
  /\ Items[3].name = <<"f","o","o">>
  /\ ~parsed.ok
  /\ parsed.error = DuplicateOptionError
  /\ parsed.what = <<"-","-","f","o","o">>

\* a token written as a braced group
IsBraced(tok) == StartsWith(tok, <<"{">>) /\ EndsWith(tok, <<"}">>)

\* the source has no character a token can start at or consist of
NoToken(s) == \A p \in 1..Len(s) : s[p] \in Whitespace \cup {"{", "}"}

\* C12: parseSignature fails when the source is empty or holds no token,
\* and fails when the first token is a braced group; the name of a
\* compiled signature is never a braced token.
C12_NameIsBareWord ==
  Compiled =>
    /\ (signature = <<>> \/ NoToken(signature)) => ~parsed.ok
    /\ (decl.name # <<>> /\ IsBraced(decl.name) /\ Len(decl.name) > 2) => ~parsed.ok
    /\ parsed.ok => ~IsBraced(parsed.name)

(***************************************************************************)
(* Properties of the registry (specification SpecRegistry)                 *)
(***************************************************************************)
Namespaces == 0..Len(groups)
CommandsOf(n) == GroupAt(n).commands
DuplicateCommandError == "Duplicate command"
RegisterErrors ==
  { DuplicateCommandError, "Empty signature", "Invalid option syntax",
    "Invalid argument syntax", OrderError, UppercaseError,
    "Unexpected token in signature", DuplicateArgumentError, DuplicateOptionError }

\* what Group.register does in the present state, for every namespace and
\* every signature: a compile error or a taken name is thrown and the
\* namespace stays as it is; otherwise the command is added after the
\* others, under its compiled name, and the others stay as they are
RegisterOutcome ==
  \A n \in Namespaces, sig \in RegisterSignatures :
    LET g == GroupAt(n)
        p == parseSignature(sig)
        r == Group_register(g, sig)
    IN /\ ~p.ok => (r.thrown = Thrown(p.error, p.what) /\ r.group = g)
       /\ (p.ok /\ MapHas(g.commands, p.name)) =>
            /\ r.thrown = Thrown(DuplicateCommandError, p.name)
            /\ r.group = g
       /\ (p.ok /\ ~MapHas(g.commands, p.name)) =>
            /\ r.thrown = NoError
            /\ Len(r.group.commands) = Len(g.commands) + 1
            /\ SubSeq(r.group.commands, 1, Len(g.commands)) = g.commands
            /\ r.group.commands[Len(g.commands) + 1].key = p.name
            /\ r.group.commands[Len(g.commands) + 1].value.signature.args = p.args

\* every namespace maps a name to one command, the one of that name
OneCommandPerName ==
  \A n \in Namespaces :
    /\ ~HasRepeat(MapKeys(CommandsOf(n)))
    /\ \A k \in 1..Len(CommandsOf(n)) :
         CommandsOf(n)[k].value.name = CommandsOf(n)[k].key

\* a call that threw a register error changed no namespace, and no call
\* ever replaces the signature a name was registered with
FailedRegisterKeeps ==
  /\ thrown'.msg \in RegisterErrors => (rootGroup' = rootGroup /\ groups' = groups)
  /\ Len(groups') >= Len(groups)
  /\ \A n \in Namespaces :
       LET before == CommandsOf(n)
           after == IF n = 0 THEN rootGroup'.commands ELSE groups'[n].value.commands
       IN \A k \in 1..Len(before) :
            /\ Len(after) >= k
            /\ after[k].key = before[k].key
            /\ after[k].value.signature = before[k].value.signature

\* C13: Group.register throws a duplicate-command error when the namespace
\* already has a command of the compiled name; a register that throws
\* (duplicate name or compile error) leaves the command maps as they were,
\* the first command keeping signature, description and action; every
\* namespace maps each name to exactly one command; a name taken in one
\* namespace can still be registered in another.
C13_DuplicateCommand ==
  /\ [](RegisterOutcome /\ OneCommandPerName)
  /\ [][FailedRegisterKeeps]_vars

\* C13 witness: "up" was registered and described, then "up {t}" was
\* refused as a duplicate; "up" still has no argument and its description
C13_Witness ==
  /\ thrown = Thrown(DuplicateCommandError, NameUp)
  /\ Len(rootGroup.commands) = 1
  /\ rootGroup.commands[1].value.signature.args = <<>>
  /\ rootGroup.commands[1].value.description = <<"d">>

ReservedError == "The group prefix 'cli' is reserved"
GroupExistsError == "Group already exists"
RegisteredPrefixes == {groups[j].key : j \in 1..Len(groups)}

\* what zet.group does in the present state, for every prefix: the reserved
\* prefix and a prefix in use are refused and the map stays as it is
GroupOutcome ==
  \A prefix \in Prefixes :
    LET r == zet_group(groups, prefix, GroupDescription)
    IN /\ prefix = Reserved => (r.thrown.msg = ReservedError /\ r.groups = groups)
       /\ prefix \in RegisteredPrefixes =>
            (r.thrown.msg = GroupExistsError /\ r.groups = groups)
       /\ (prefix # Reserved /\ prefix \notin RegisteredPrefixes) =>
            (r.thrown = NoError /\ MapKeys(r.groups) = Append(MapKeys(groups), prefix))

DistinctPrefixes ==
  /\ ~HasRepeat(MapKeys(groups))
  /\ Reserved \notin RegisteredPrefixes
  /\ \A j \in 1..Len(groups) : groups[j].value.prefix = groups[j].key

FailedGroupKeeps ==
  thrown'.msg \in {ReservedError, GroupExistsError} => groups' = groups

\* C14: zet.group throws for the prefix 'cli' in every registry state and
\* throws for a prefix that already has a group; a call that throws leaves
\* the groups as they were; the registered prefixes are pairwise distinct
\* and 'cli' is never one of them.
C14_ReservedPrefix ==
  /\ [](GroupOutcome /\ DistinctPrefixes)
  /\ [][FailedGroupKeeps]_vars

\* C14 witness: after group 'be' was created and a command registered in
\* it, zet.group('cli') threw
C14_Witness ==
  /\ thrown = Thrown(ReservedError, Reserved)
  /\ MapKeys(groups) = <<NameBe>>
  /\ Len(groups[1].value.commands) = 1

\* C15: no command name of the default namespace equals a registered
\* namespace prefix, whatever the order of the zet.register and zet.group
\* calls.
C15_NoNameIsPrefix ==
  \A k \in 1..Len(rootGroup.commands) :
    rootGroup.commands[k].key \notin RegisteredPrefixes

(***************************************************************************)
(* Properties of the dispatcher (specification SpecZet)                    *)
(***************************************************************************)
\* zet.init has run up to its exit or its first suspension
Dispatched == pc # "config"
IsHelpFlag(t) == t = HelpLong \/ t = HelpShort
TailFrom(a, k) == SubSeq(a, k, Len(a))

\* the matcher was not run, nothing was bound and no action was started
NothingRun ==
  /\ result = Running
  /\ cmd = NoCommand
  /\ matchedCommand = NoCommand
  /\ parsedArgs = EmptyObject /\ parsedOptions = EmptyObject /\ restArgs = <<>>
  /\ children = <<>>
  /\ invoked = 0

\* the fatal exits of the resolution
EndedUnknownCommand(what) ==
  /\ pc = "exited" /\ exitCode = <<1>>
  /\ stdout = <<>>
  /\ stderr = <<ErrorLine("unknown command", what)>>
  /\ NothingRun
EndedMissingCommand(what) ==
  /\ pc = "exited" /\ exitCode = <<1>>
  /\ stdout = <<>>
  /\ stderr = <<ErrorLine("missing command for group", what)>>
  /\ NothingRun
EndedGlobalHelp ==
  /\ pc = "exited" /\ exitCode = <<0>>
  /\ stdout = <<GlobalHelp>> /\ stderr = <<>>
  /\ NothingRun

\* the matcher ran on command c with the tokens rem
MatcherRanOn(c, rem) ==
  /\ cmd = c
  /\ matchedCommand = c
  /\ argv = rem
  /\ result = parseArgv(rem, c)

\* the resolution with the second token after a prefix always looked up
LookedUp(a) ==
  IF a[1] \in RegisteredPrefixes
  THEN IF Len(a) < 2 THEN EndedMissingCommand(<<a[1]>>)
       ELSE IF MapHas(MapGet(groups, a[1]).commands, a[2])
       THEN MatcherRanOn(MapGet(MapGet(groups, a[1]).commands, a[2]), TailFrom(a, 3))
       ELSE EndedUnknownCommand(<<a[1], a[2]>>)
  ELSE IF MapHas(rootGroup.commands, a[1])
       THEN MatcherRanOn(MapGet(rootGroup.commands, a[1]), TailFrom(a, 2))
       ELSE EndedUnknownCommand(<<a[1]>>)

\* C16 as stated: a first token that is a registered prefix has the second
\* token looked up in that namespace only and the matcher gets the tokens
\* from the third on; no second token ends with exit code 1; any other
\* first token is looked up in the default namespace and the matcher gets
\* the tokens from the second on; a failed lookup ends with "unknown
\* command" and exit code 1, no matcher and no action run.
C16_Original ==
  (Dispatched /\ ~EntryHelp(processArgv)) => LookedUp(processArgv)

\* C16: the same, except that a help flag as second token after a
\* registered prefix is not looked up: the global help is written and the
\* process exits with 0.
C16_Resolution ==
  (Dispatched /\ ~EntryHelp(processArgv)) =>
    IF /\ processArgv[1] \in RegisteredPrefixes
       /\ Len(processArgv) >= 2
       /\ IsHelpFlag(processArgv[2])
    THEN EndedGlobalHelp
    ELSE LookedUp(processArgv)

\* C16 witness: 'be up a' with "up" in the default namespace and "up {t}"
\* in namespace 'be': the command of 'be' was matched against <<a>>
C16_Witness ==
  /\ Dispatched
  /\ processArgv = <<NameBe, NameUp, TokA>>
  /\ MapHas(rootGroup.commands, NameUp)
  /\ MapHas(groups, NameBe)
  /\ cmd = MapGet(MapGet(groups, NameBe).commands, NameUp)
  /\ argv = <<TokA>>
  /\ parsedArgs = SetProperty(EmptyObject, <<"t">>, TokA)

\* C17: when argv is empty or its first token is '--help' or '-h', zet.init
\* writes the global help and exits with code 0, whatever is registered:
\* no command is resolved, the matcher is not run, the bound state is not
\* written and no action is executed.
C17_GlobalHelp ==
  (Dispatched /\ (processArgv = <<>> \/ IsHelpFlag(processArgv[1])))
    => EndedGlobalHelp

\* C17 witness: '-h up a' with "up" registered with a callback: global help
C17_Witness ==
  /\ Dispatched
  /\ processArgv = <<HelpShort, NameUp, TokA>>
  /\ MapGet(rootGroup.commands, NameUp).type = "callback"
  /\ stdout = <<GlobalHelp>>
  /\ exitCode = <<0>>

\* a command was matched, parseArgv succeeded and its action is Subprocess
SubprocessMatched ==
  /\ Dispatched
  /\ Succeeded
  /\ cmd.type = "command"

\* the expansion of the matched command's parts
Expanded == flattenParts(cmd.parts, restArgs)

\* one child, made from the expansion; the process has exited only if the
\* child has closed, and then with the child's code, or 1 for null
OneChildPropagated ==
  /\ Len(children) = 1
  /\ <<children[1].file>> \o children[1].args = Expanded
  /\ invoked = 0
  /\ pc \in {"child", "exited"}
  /\ pc = "child" => (~children[1].closed /\ exitCode = NoExit)
  /\ pc = "exited" =>
       /\ children[1].closed
       /\ exitCode = <<IF children[1].code = <<>> THEN 1 ELSE children[1].code[1]>>

\* C18: for a matched command whose action is Subprocess, zet.init spawns
\* exactly one child from the expanded parts, and the process exits only
\* after that child has closed, with the child's exit code, or with 1 when
\* the child reports none.
C18_SubprocessExit ==
  SubprocessMatched => OneChildPropagated

\* the same for the commands whose expansion starts with a non-empty string
SubprocessExitWhenSpawnable ==
  (SubprocessMatched /\ Expanded # <<>> /\ Expanded[1] # <<>>) => OneChildPropagated

\* a command was matched, parseArgv succeeded and its action is Callback
CallbackMatched ==
  /\ Dispatched
  /\ Succeeded
  /\ cmd.type = "callback"

\* C19: for a matched command whose action is Callback, zet.init invokes
\* the callback exactly once and decides nothing while the callback's
\* completion is awaited; a callback that throws or whose promise rejects
\* ends with exit code 1, one that completes leads to no exit by the
\* dispatcher, and no other action is started meanwhile.
C19_CallbackAwaited ==
  CallbackMatched =>
    /\ invoked = 1
    /\ children = <<>>
    /\ pc \in {"awaiting", "returned", "exited"}
    /\ pc = "awaiting" =>
         (cmd.callback # "throws" /\ exitCode = NoExit /\ stderr = <<>>)
    /\ cmd.callback \in {"throws", "rejects"} =>
         (pc # "awaiting" =>
            (pc = "exited" /\ exitCode = <<1>> /\ stderr = <<UncaughtError>>))
    /\ cmd.callback \in {"returns", "resolves"} =>
         (pc # "awaiting" =>
            (pc = "returned" /\ exitCode = NoExit /\ stderr = <<>>))

\* C19 witness: the callback of 'be up a' returned a promise that rejected
\* after zet.init had suspended: exit code 1
C19_Witness ==
  /\ CallbackMatched
  /\ processArgv = <<NameBe, NameUp, TokA>>
  /\ cmd.callback = "rejects"
  /\ invoked = 1
  /\ pc = "exited"
  /\ exitCode = <<1>>

(***************************************************************************)
(* Properties of part expansion (specification SpecFlatten)                *)
(***************************************************************************)
Flattened == flat.returned

\* the expansion written as a left-to-right rewriting of a work list: the
\* first part is replaced by what it stands for until it is a string
RECURSIVE Unfold(_, _)
Unfold(work, restTokens) ==
  IF work = <<>> THEN <<>>
  ELSE IF work[1].tag = "string"
  THEN <<work[1].value>> \o Unfold(Tail(work), restTokens)
  ELSE IF work[1].tag = "number"
  THEN <<Decimal(work[1].number)>> \o Unfold(Tail(work), restTokens)
  ELSE IF work[1].tag = "rest"
  THEN restTokens \o Unfold(Tail(work), restTokens)
  ELSE IF work[1].tag = "template"
  THEN Unfold(work[1].parts \o Tail(work), restTokens)
  ELSE Unfold(work[1].items \o Tail(work), restTokens)

\* C20: flattenParts returns the depth-first, left-to-right concatenation
\* of its parts as one flat sequence of strings: a literal contributes its
\* string, a template result the expansion of its parts, an array the
\* expansion of its elements, and every rest placeholder, at any depth,
\* the rest tokens in their order.
C20_FlattenParts ==
  Flattened => flat.value = Unfold(parts, restArgs)

\* C20 witness: a template holding 'c' and the array [rest, 'd'], then the
\* number 10, with rest tokens x, y: c x y d 10
C20_Witness ==
  /\ Flattened
  /\ parts = <<TemplateResult(<<LitC, Array(<<REST_PLACEHOLDER, LitD>>)>>), Num(10)>>
  /\ restArgs = <<TokX, TokY>>
  /\ flat.value = <<<<"c">>, TokX, TokY, <<"d">>, <<"1", "0">>>>

(***************************************************************************)
(* The rendered command help                                               *)
(***************************************************************************)
Rendered == helpText # NULL

\* text.split("\n")
SplitLines(text) ==
  LET breaks == {k \in DOMAIN text : text[k] = "\n"}
      RECURSIVE From(_)
      From(start) ==
        IF \A k \in breaks : k < start
        THEN <<SubSeq(text, start, Len(text))>>
        ELSE LET stop == CHOOSE k \in breaks :
                           k >= start /\ \A m \in breaks : m >= start => k <= m
             IN <<SubSeq(text, start, stop - 1)>> \o From(stop + 1)
  IN From(1)

\* the line numbers of the block that starts at the line `title`
BlockOf(lines, title) ==
  {n \in DOMAIN lines :
     \E t \in DOMAIN lines :
       /\ lines[t] = title
       /\ t < n
       /\ \A m \in t + 1 .. n : lines[m] # NULL}

\* C21: the help of a command with an accepted signature names every declared
\* argument in its arguments block and the long name of every declared option
\* in its options block, and the last entry of the options block, which ends
\* the text, is the synthesized "--help, -h  Show help"
C21_CommandHelp ==
  Rendered =>
    LET lines == SplitLines(helpText)
        arguments == BlockOf(lines, <<"A","r","g","u","m","e","n","t","s",":">>)
        options == BlockOf(lines, <<"O","p","t","i","o","n","s",":">>)
    IN /\ \A k \in DOMAIN parsed.args :
            \E n \in arguments :
              StartsWith(lines[n], <<" "," ">> \o parsed.args[k].name \o <<" "," "," "," ">>)
       /\ \A k \in DOMAIN parsed.options :
            \E n \in options :
              /\ n < Len(lines)
              /\ \/ StartsWith(lines[n], <<" "," ">> \o parsed.options[k].long \o <<" ">>)
                 \/ StartsWith(lines[n], <<" "," ">> \o parsed.options[k].long \o <<",">>)
       /\ Len(lines) \in options
       /\ StartsWith(lines[Len(lines)], <<" "," ","-","-","h","e","l","p",","," ","-","h"," "," "," "," ">>)
       /\ EndsWith(lines[Len(lines)], <<" ","S","h","o","w"," ","h","e","l","p">>)

C21_Witness ==
  /\ Rendered
  /\ Len(parsed.args) = 2
  /\ Len(parsed.options) >= 1
  /\ cmd.group # NULL
  /\ cmd.description # NULL

(***************************************************************************)
(* parseArgv and what is around it                                         *)
(***************************************************************************)

Started == children # <<>> \/ invoked > 0

\* parsedArgs, parsedOptions and restArgs hold what the success result holds
BoundFrom(res) ==
  /\ parsedArgs = res.args
  /\ parsedOptions = res.options
  /\ restArgs = res.rest

\* parsedArgs, parsedOptions and restArgs are as the module was loaded
NeverBound ==
  /\ parsedArgs = EmptyObject
  /\ parsedOptions = EmptyObject
  /\ restArgs = <<>>

\* a step that writes parsedArgs, parsedOptions or restArgs is the step of
\* zet.init, which found a success result and wrote its three parts
BoundOnce ==
  <<parsedArgs, parsedOptions, restArgs>>' # <<parsedArgs, parsedOptions, restArgs>>
    => /\ pc = "config"
       /\ ~Started
       /\ Succeeded'
       /\ parsedArgs' = result'.args
       /\ parsedOptions' = result'.options
       /\ restArgs' = result'.rest

\* C23: an action has started only if parseArgv returned a success result
\* and the bound state holds that result; a run that ended on a help or an
\* error path has the bound state of the loaded module; the bound state is
\* written by the dispatching step only, which never runs again, and never in
\* a step taken while or after the action runs.
C23_BoundBeforeAction ==
  /\ [](Started => Succeeded /\ BoundFrom(result))
  /\ [](Dispatched /\ ~Succeeded => NeverBound /\ ~Started)
  /\ [][BoundOnce]_vars
  /\ [][pc # "config" => pc' # "config"]_vars

C23_Witness ==
  /\ pc = "returned"
  /\ invoked = 1
  /\ Succeeded
  /\ BoundFrom(result)
  /\ parsedArgs # EmptyObject

(***************************************************************************)
(* Match errors                                                            *)
(***************************************************************************)
ExitedNonZero == pc = "exited" /\ exitCode # NoExit /\ exitCode # <<0>>

HasUsageLine == \E k \in DOMAIN stderr : stderr[k].kind = "formatUsageLine"

\* the run ended because no command goes by the first token, or by the
\* second one in the namespace of the first
UnknownCommand ==
  /\ Dispatched
  /\ stderr # <<>>
  /\ stderr[1].kind = "error"
  /\ stderr[1].msg = "unknown command"

\* an error result of parseArgv carries the command it was called with; the
\* run writes the message and the usage line of that command and exits with 1
MatchFailureEchoed ==
  Failed =>
    /\ result.cmd = cmd
    /\ ExitedNonZero
    /\ stdout = <<>>
    /\ stderr = <<ErrorLine(result.error.msg, result.error.what), UsageLine(cmd)>>

\* C24: every match error, the unknown command among them, ends the run with
\* a non-zero exit code and writes a usage line with the message; an error
\* result of parseArgv carries the command whose usage line is written.
C24_MatchErrorUsage ==
  /\ MatchFailureEchoed
  /\ UnknownCommand => ExitedNonZero /\ HasUsageLine

(***************************************************************************)
(* Command help inside a namespace                                         *)
(***************************************************************************)

\* the first token is a registered prefix and the run is past the dispatch
PrefixFirst ==
  /\ Dispatched
  /\ processArgv # <<>>
  /\ processArgv[1] \in RegisteredPrefixes

\* the help of some command of namespace n has been written
HelpOfNamespace(n) ==
  \E k \in DOMAIN stdout :
    stdout[k].kind = "formatCommandHelp" /\ stdout[k].group = n

\* the run wrote the help of command c, exited with 0 and did nothing else
EndedCommandHelp(c) ==
  /\ pc = "exited" /\ exitCode = <<0>>
  /\ stdout = <<CommandHelp(c)>> /\ stderr = <<>>
  /\ cmd = c
  /\ result = HelpResult
  /\ NeverBound /\ ~Started

\* C25 as stated: after a registered prefix no argv makes zet.init write the
\* help of a command of that namespace; a help flag as second token gives the
\* global help.
C25_Original ==
  PrefixFirst =>
    /\ ~HelpOfNamespace(processArgv[1])
    /\ (Len(processArgv) >= 2 /\ IsHelpFlag(processArgv[2])) => EndedGlobalHelp

\* C25: after a registered prefix, a help flag as second token gives the
\* global help; when the second token names a command of the namespace, a
\* help flag as third token gives the help of that command with exit code 0;
\* the help of a command of the namespace is written only for an argv whose
\* second token names that command and that has a help flag at the third
\* position or later.
C25_NamespaceHelp ==
  PrefixFirst =>
    LET a == processArgv
        commands == MapGet(groups, a[1]).commands
    IN /\ (Len(a) >= 2 /\ IsHelpFlag(a[2])) => EndedGlobalHelp
       /\ (Len(a) >= 3 /\ MapHas(commands, a[2]) /\ IsHelpFlag(a[3]))
            => EndedCommandHelp(MapGet(commands, a[2]))
       /\ HelpOfNamespace(a[1])
            => /\ Len(a) >= 3
               /\ MapHas(commands, a[2])
               /\ stdout = <<CommandHelp(MapGet(commands, a[2]))>>
               /\ \E k \in 3 .. Len(a) : IsHelpFlag(a[k])

\* C25 witness: 'be up -h' with "up {t}" in namespace 'be'
C25_Witness ==
  /\ Dispatched
  /\ processArgv = <<NameBe, NameUp, HelpShort>>
  /\ MapHas(groups, NameBe)
  /\ MapHas(MapGet(groups, NameBe).commands, NameUp)
  /\ EndedCommandHelp(MapGet(MapGet(groups, NameBe).commands, NameUp))

(***************************************************************************)
(* The action of a built command                                           *)
(***************************************************************************)

\* the calls that set an action, by their place in builderCalls
ActionCalls == {j \in DOMAIN builderCalls : builderCalls[j].call # "description"}

LastActionCall ==
  builderCalls[CHOOSE j \in ActionCalls : \A m \in ActionCalls : m <= j]

\* the command the builder wraps
Built == rootGroup.commands[1].value

UnsetLine == ErrorLine("has no action defined", Built.name)

\* the registered command holds what the last action-setting call gave it
HoldsLastAction ==
  IF ActionCalls = {} THEN Built.type = "null"
  ELSE IF LastActionCall.call = "command"
  THEN Built.type = "command" /\ Built.parts = LastActionCall.parts
  ELSE Built.type = "callback" /\ Built.callback = LastActionCall.fn

\* after a successful match zet.init took the branch of the last
\* action-setting call: a spawn of the expansion of its parts, a call of its
\* function, or the fatal line when there was no such call
ExecutesLastAction ==
  (Dispatched /\ Succeeded) =>
    IF ActionCalls = {}
    THEN /\ stderr = <<UnsetLine>>
         /\ exitCode = <<1>>
         /\ ~Started
    ELSE IF LastActionCall.call = "command"
    THEN LET expansion == flattenParts(LastActionCall.parts, result.rest)
         IN /\ invoked = 0
            /\ IF SpawnThrows(expansion) THEN children = <<>>
               ELSE /\ Len(children) = 1
                    /\ <<children[1].file>> \o children[1].args = expansion
    ELSE /\ invoked = 1
         /\ children = <<>>
         /\ cmd.callback = LastActionCall.fn

\* the fatal line of a command without action is written exactly when the
\* match succeeded and no action-setting call was made
UnsetExactly ==
  Dispatched =>
    ((\E k \in DOMAIN stderr : stderr[k] = UnsetLine)
       <=> (Succeeded /\ ActionCalls = {}))

\* no step changes the name, the signature or the namespace of the command,
\* the names the namespace holds, or the named namespaces
BuilderKeeps ==
  /\ MapKeys(rootGroup'.commands) = MapKeys(rootGroup.commands)
  /\ Built'.name = Built.name
  /\ Built'.signature = Built.signature
  /\ Built'.group = Built.group
  /\ groups' = groups

\* C26: after any sequence of description, command and callback calls on the
\* builder of a command, the command holds the action of the last call that
\* sets one and zet.init executes that action after a successful match; the
\* command is without action, and zet.init ends with "has no action defined"
\* and exit code 1 after a successful match, exactly when no such call was
\* made; no call changes the command's name or signature or the commands
\* registered.
C26_LastActionWins ==
  /\ [](HoldsLastAction /\ ExecutesLastAction /\ UnsetExactly)
  /\ [][BuilderKeeps]_vars

\* C26 witness: command(...), callback(fn), description(text) in this order,
\* then a dispatch that called fn and returned
C26_Witness ==
  /\ pc = "returned"
  /\ Len(builderCalls) = 3
  /\ builderCalls[1].call = "command"
  /\ builderCalls[2].call = "callback"
  /\ builderCalls[3].call = "description"
  /\ invoked = 1
  /\ children = <<>>

(***************************************************************************)
(* The shape of a success result                                           *)
(***************************************************************************)

\* the names of the first n declared arguments
FirstNames(sig, n) == {sig.args[k].name : k \in 1 .. n}

\* the bound arguments are the first n declared ones for some n, each bound
\* to a token of argv
ArgsWellFormed(sig, res) ==
  /\ \E n \in 0 .. Len(sig.args) : DOMAIN res.args = FirstNames(sig, n)
  /\ \A name \in DOMAIN res.args : \E k \in DOMAIN argv : res.args[name] = argv[k]

\* every key is the long name of a declared option; a flag is bound to true
\* and a value option to a string
OptionsWellFormed(sig, res) ==
  \A key \in DOMAIN res.options :
    \E k \in DOMAIN sig.options :
      /\ sig.options[k].long = key
      /\ ~sig.options[k].acceptsValue <=> res.options[key] = BoolTrue
      /\ sig.options[k].acceptsValue <=> res.options[key].type = "string"

\* C27: in every success result of parseArgv the bound argument names are a
\* prefix of the declared arguments and each is bound to a string; every key
\* of options is a declared long name, bound to true exactly when the option
\* takes no value and to a string exactly when it takes one; rest is empty
\* when the signature does not accept rest.
C27_WellFormedResult ==
  Succeeded =>
    /\ ArgsWellFormed(cmd.signature, result)
    /\ OptionsWellFormed(cmd.signature, result)
    /\ ~cmd.signature.acceptsRest => result.rest = <<>>

\* C27 witness: an argument, a value option and a flag bound in one result
C27_Witness ==
  /\ Succeeded
  /\ DOMAIN result.args # {}
  /\ \E key \in DOMAIN result.options : result.options[key] = BoolTrue
  /\ \E key \in DOMAIN result.options : result.options[key].type = "string"

(***************************************************************************)
(* What a step of parseArgv does with the token it reads                   *)
(***************************************************************************)

\* the token is written as option o: by its long name up to the first '=',
\* letters in any case, or by its short flag
TokenNames(tok, o) ==
  IF StartsWith(tok, Dashes)
  THEN LET eq == IndexOf(tok, "=")
           written == IF eq = 0 THEN tok ELSE SubSeq(tok, 1, eq - 1)
       IN Dashes \o ToLowerCase(SubSeq(written, 3, Len(written))) = o.long
  ELSE tok = o.short

\* the step stopped option parsing at the first '--'
StepStops ==
  /\ ~stopParsing /\ Token = Dashes
  /\ stopParsing'
  /\ i' = i + 1
  /\ UNCHANGED <<args, opts, rest>>

\* the step bound the token to the next declared argument, unbound before
StepBindsArgument ==
  /\ \E name \in DOMAIN args' \ DOMAIN args :
       /\ DOMAIN args' = DOMAIN args \cup {name}
       /\ args'[name] = Token
       /\ \A other \in DOMAIN args : args'[other] = args[other]
  /\ i' = i + 1
  /\ UNCHANGED <<opts, rest, stopParsing>>

\* the step put the token at the end of rest
StepAppendsRest ==
  /\ rest' = Append(rest, Token)
  /\ i' = i + 1
  /\ UNCHANGED <<args, opts, stopParsing>>

\* the step recognized the token as a declared option and bound that option:
\* to true, to the text after the first '=', or to the next token, which it
\* consumed; a value bound before is replaced
StepBindsOption ==
  /\ ~stopParsing
  /\ \E k \in DOMAIN cmd.signature.options :
       LET o == cmd.signature.options[k]
           eq == IndexOf(Token, "=")
       IN /\ TokenNames(Token, o)
          /\ \/ /\ ~o.acceptsValue
                /\ opts' = SetProperty(opts, o.long, BoolTrue)
                /\ i' = i + 1
             \/ /\ o.acceptsValue
                /\ StartsWith(Token, Dashes) /\ eq # 0
                /\ opts' = SetProperty(opts, o.long,
                                       Str(SubSeq(Token, eq + 1, Len(Token))))
                /\ i' = i + 1
             \/ /\ o.acceptsValue
                /\ i + 1 <= Len(argv)
                /\ opts' = SetProperty(opts, o.long, Str(argv[i + 1]))
                /\ i' = i + 2
  /\ UNCHANGED <<args, rest, stopParsing>>

\* how many of the four a step is
StepKinds ==
  (IF StepStops THEN 1 ELSE 0) + (IF StepBindsArgument THEN 1 ELSE 0)
  + (IF StepAppendsRest THEN 1 ELSE 0) + (IF StepBindsOption THEN 1 ELSE 0)

\* a step that reads a token and goes on used the token in exactly one way;
\* a step that returns an error returns the error it would return with no
\* option bound yet; the step after the last token returns what was gathered
StepAccounts ==
  /\ (Scanning /\ result' = Running) => StepKinds = 1
  /\ (Scanning /\ Failed') =>
       result' = LoopBody(argv, cmd, [Scan EXCEPT !.opts = EmptyObject]).result
  /\ (result = Running /\ i > Len(argv) /\ Succeeded') =>
       result' = SuccessResult(args, opts, rest)

\* the elements of sub occur in whole in this order
RECURSIVE IsSubsequence(_, _)
IsSubsequence(sub, whole) ==
  IF sub = <<>> THEN TRUE
  ELSE IF whole = <<>> THEN FALSE
  ELSE IF Head(sub) = Head(whole) THEN IsSubsequence(Tail(sub), Tail(whole))
  ELSE IsSubsequence(sub, Tail(whole))

\* C28: every token parseArgv reads on the way to a result is used in exactly
\* one way: it is the first '--', it is bound to an argument, it is put at
\* the end of rest, or it is a recognized option token, whose value, when it
\* is the next token, is consumed with it; rest holds its tokens in the order
\* of argv; an option that occurs again replaces the value bound before and
\* gives no error of its own; the result returned is what was gathered.
C28_TokensAccounted ==
  /\ [][StepAccounts]_vars
  /\ [](i <= Len(argv) + 1)
  /\ [](IsSubsequence(rest, argv))
  /\ [](Succeeded => result.rest = rest)

\* C28 witness: '--Out=v=w -O a' on "b {--Out=}": the option bound twice, the
\* value of the second occurrence kept
C28_Witness ==
  /\ Succeeded
  /\ argv = <<TokOutEq, TokOutShort, TokA>>
  /\ DOMAIN result.options # {}
  /\ \A key \in DOMAIN result.options : result.options[key] = Str(TokA)

(***************************************************************************)
(* Short flags of a compiled signature                                     *)
(***************************************************************************)

\* C29: in every signature parseSignature accepts, no two options have the
\* same short flag, so that the short flag of each option leads to that
\* option in the shortMap parseArgv builds.
C29_DistinctShortFlags ==
  (Compiled /\ parsed.ok) =>
    /\ \A j, k \in DOMAIN parsed.options :
         (j # k /\ parsed.options[j].short # NULL)
           => parsed.options[j].short # parsed.options[k].short
    /\ \A k \in DOMAIN parsed.options :
         parsed.options[k].short # NULL
           => ShortMap(parsed.options, Len(parsed.options))[parsed.options[k].short]
                = parsed.options[k]

(***************************************************************************)
(* Characters of the source that no token holds                            *)
(***************************************************************************)

\* from position p on, outside any braced group, the source has a '}' that
\* closes nothing, a '{' that is never closed, or a group '{}' that holds
\* nothing
RECURSIVE StrayBraceFrom(_, _)
StrayBraceFrom(s, p) ==
  IF p > Len(s) THEN FALSE
  ELSE IF s[p] = "}" THEN TRUE
  ELSE IF s[p] = "{"
  THEN LET closes == {q \in p + 1 .. Len(s) : s[q] = "}"}
       IN IF closes = {} THEN TRUE
          ELSE LET q == CHOOSE q \in closes : \A r \in closes : q <= r
               IN IF q = p + 1 THEN TRUE ELSE StrayBraceFrom(s, q + 1)
  ELSE StrayBraceFrom(s, p + 1)

\* C30: parseSignature fails on every source that holds an empty group '{}'
\* or a brace outside a group, as "x {}", "x {a}}" and "x }" do: every
\* character that is not whitespace belongs to the name, a braced group or
\* '...'.
C30_EveryCharacterExamined ==
  (Compiled /\ StrayBraceFrom(signature, 1)) => ~parsed.ok

====
